---------------------------- MODULE Spec2Model ----------------------------
(***************************************************************************)
(* Model of the memory engine of memgpt-service:                           *)
(*   memory/vector_store.py   VectorStore (durable memory_embeddings       *)
(*                            table + in-memory FAISS index + slot map)    *)
(*   memory/hierarchy.py      MemoryHierarchy (durable memory_hierarchies  *)
(*                            table + in-memory networkx graph)            *)
(*   memory/retrieval.py      MemoryRetrieval (hybrid search)              *)
(*   memory_processor.py      MemoryProcessor (ingestion, maintenance)     *)
(*                                                                         *)
(* The engine runs on one asyncio event loop.  Every `await` on the        *)
(* durable store is a suspension point: the store acts on the request at   *)
(* one step and the coroutine continues at a later step; the code between  *)
(* two awaits runs without interruption.  Floating point scores are        *)
(* modelled as scaled integers.  The injected store client is taken to     *)
(* return awaitables from execute(), as every call site expects.           *)
(***************************************************************************)
EXTENDS Integers, Sequences, FiniteSets, TLC

(***************************************************************************)
(* Bounds of the model.                                                    *)
(***************************************************************************)
\* number of distinct memory ids the vector-store calls are made with
NumIds == 2
\* dimension of the index (1536 in the deployment, vector_store.py:23)
Dim == 2
\* rows the durable memory_embeddings table may hold
MaxRows == 2
\* vectors the in-memory index may hold
MaxSlots == 2
\* largest k a similarity_search is called with
MaxK == 2
\* rows the durable memories table may hold
MaxMemories == 3
\* rows the durable memory_hierarchies table may hold
MaxEdges == 2

None == "None"

Min(a, b) == IF a < b THEN a ELSE b

(***************************************************************************)
(* VectorStore                                                             *)
(***************************************************************************)
VARIABLES
    embeddings,   \* durable table memory_embeddings: sequence of rows
    index,        \* self.index: the vectors of the FAISS index, slot i at i+1
    memory_map,   \* self.memory_map: slot -> memory_id
    sv,           \* the store_vector call in flight
    sy,           \* the sync_index call in flight
    dl,           \* the delete_vectors call in flight
    search        \* arguments and result of the similarity_search that just returned

vecVars == <<embeddings, index, memory_map, sv, sy, dl, search>>

VARIABLES
    memories,     \* durable table memories: id -> row
    hier,         \* durable table memory_hierarchies: set of edge rows
    graph,        \* self.graph (nx.DiGraph): set of edges with attributes
    now,          \* datetime.now(), in days
    ae,           \* the add_memory_relationship call in flight
    cs,           \* the consolidate_memories call in flight
    pr            \* the prune_hierarchy call in flight

graphVars == <<memories, hier, graph, now, ae, cs, pr>>

VARIABLES
    pn,           \* the process_new_memory call in flight
    mt,           \* the maintain_memory_system call in flight
    ri            \* the recompute_importance call in flight

engVars == <<pn, mt, ri>>

VARIABLES
    hy            \* the _hybrid_search call in flight

hybVars == <<hy>>

VARIABLES
    sr            \* the MemoryRetrieval.search call in flight

retVars == <<sr>>

VARIABLES
    cache,        \* EmbeddingManager.cache: text -> vector
    requests_per_minute,  \* EmbeddingManager.requests_per_minute
    ge,           \* the get_embedding calls in flight, by caller
    succeeded,    \* text -> the vector a call got from the provider since the last clear_cache
    burst         \* the provider requests sent with no pause between the calls, and the
                  \* seconds the calls slept, since the last pause of 60 seconds or more

embVars == <<cache, requests_per_minute, ge, succeeded, burst>>

VARIABLES
    gt,           \* arguments and result of get_memory_tree, when it was the last traversal
    fa            \* arguments and result of find_common_ancestors, when it was the last

travVars == <<gt, fa>>

VARIABLES
    fc            \* the call of a retrieval or clustering helper that has its result: arguments and result

hlpVars == <<fc>>

qryVars == <<hybVars, retVars, embVars, travVars, hlpVars>>

MemIds == 1..NumIds

\* embeddings a caller may pass: the unit vectors of the index's dimension ...
UnitVector(j) == [i \in 1..Dim |-> IF i = j THEN 1 ELSE 0]
\* the embedding the provider returns for the content of memory id
Embedding(id) == UnitVector(((id - 1) % Dim) + 1)
GoodVectors == {Embedding(id) : id \in MemIds}
\* ... and an array of another length
BadVector == [i \in 1..(Dim + 1) |-> 1]
Vectors == GoodVectors \cup {BadVector}
\* the (memory_id, embedding) pairs store_vector is called with
StoreInputs == {<<id, Embedding(id)>> : id \in MemIds} \cup {<<1, BadVector>>}

RECURSIVE Dot(_, _, _)
Dot(a, b, n) == IF n = 0 THEN 0 ELSE a[n] * b[n] + Dot(a, b, n - 1)
\* IndexFlatIP: the inner product of two vectors of the index's dimension
InnerProduct(a, b) == Dot(a, b, Dim)

\* the score FAISS reports for a slot that holds no result (-3.4e38)
NegInf == 0 - 1000

\* self.index = faiss.IndexFlatIP(1536)
InitializeFaiss == << >>

\* dict assignment d[k] = v
DictSet(d, k, v) == [x \in (DOMAIN d) \cup {k} |-> IF x = k THEN v ELSE d[x]]
EmptyDict == [x \in {} |-> None]

\* index.add(x) raises when x does not have the index's dimension
IndexAddRaises(vec) == Len(vec) # Dim

RowIds(rows) == {rows[i].memory_id : i \in 1..Len(rows)}
MapIds(m) == {m[s] : s \in DOMAIN m}

\* no call in flight
NoStore == [pc |-> "idle", memory_id |-> 0, embedding |-> << >>,
            result |-> FALSE, row_added |-> FALSE, slot_added |-> FALSE,
            slot |-> 0, inserts |-> 0]
NoSync == [pc |-> "idle", rows |-> << >>, ok |-> FALSE]
NoDelete == [pc |-> "idle", memory_ids |-> {}, rows |-> << >>, ok |-> FALSE]
NoSearch == [query |-> << >>, k |-> 0, threshold |-> 0, results |-> << >>,
             called |-> FALSE]

------------------------------------------------------------------------------
(* store_vector *)

\* a caller starts store_vector(memory_id, embedding); the insert is sent
StoreVectorCall(id, vec) ==
    /\ sv.pc \in {"idle", "returned"}
    /\ Len(index) < MaxSlots
    /\ sv' = [NoStore EXCEPT !.pc = "insert", !.memory_id = id, !.embedding = vec]
    /\ search' = NoSearch
    /\ UNCHANGED <<embeddings, index, memory_map, sy, dl>>
    /\ UNCHANGED <<graphVars, engVars, qryVars>>

\* the durable store acts on the insert: the row is added and returned, or the
\* request fails (an exception, or a response without data)
StoreVectorInsert(ok) ==
    /\ sv.pc = "insert"
    /\ IF ok
         THEN /\ Len(embeddings) < MaxRows
              /\ embeddings' = Append(embeddings,
                     [memory_id |-> sv.memory_id, embedding |-> sv.embedding])
              /\ sv' = [sv EXCEPT !.pc = "inserted", !.row_added = TRUE,
                                   !.inserts = @ + 1]
         ELSE /\ embeddings' = embeddings
              /\ sv' = [sv EXCEPT !.pc = "failed", !.inserts = @ + 1]
    /\ search' = NoSearch
    /\ UNCHANGED <<index, memory_map, sy, dl>>
    /\ UNCHANGED <<graphVars, engVars, qryVars>>

\* the coroutine continues after the await: lines 48-64
StoreVectorIndexAdd(s) ==
    IF IndexAddRaises(s.embedding)
      THEN [index |-> index, memory_map |-> memory_map, result |-> FALSE]
      ELSE [index |-> Append(index, s.embedding),
            \* self.memory_map[self.index.ntotal - 1] = memory_id
            memory_map |-> DictSet(memory_map, Len(index), s.memory_id),
            result |-> TRUE]

\* a failed insert is caught at line 62 (or is the "no data" of line 47) and
\* False is returned: no exception reaches the retry of line 31, which makes
\* no further attempt
StoreVectorReturn ==
    /\ sv.pc \in {"inserted", "failed"}
    /\ IF sv.pc = "failed"
         THEN /\ sv' = [sv EXCEPT !.pc = "returned", !.result = FALSE]
              /\ UNCHANGED <<index, memory_map>>
         ELSE LET r == StoreVectorIndexAdd(sv)
              IN  /\ index' = r.index
                  /\ memory_map' = r.memory_map
                  /\ sv' = [sv EXCEPT !.pc = "returned", !.result = r.result,
                                       !.slot_added = (r.index # index),
                                       !.slot = Len(index)]
    /\ search' = NoSearch
    /\ UNCHANGED <<embeddings, sy, dl>>
    /\ UNCHANGED <<graphVars, engVars, qryVars>>

------------------------------------------------------------------------------
(* similarity_search *)

\* the slot FAISS ranks first among S: highest inner product, lowest slot on a tie
BestSlot(q, S) ==
    CHOOSE i \in S : \A j \in S :
        \/ InnerProduct(q, index[i + 1]) > InnerProduct(q, index[j + 1])
        \/ /\ InnerProduct(q, index[i + 1]) = InnerProduct(q, index[j + 1])
           /\ i <= j

RECURSIVE TopK(_, _, _)
TopK(q, S, k) ==
    IF k = 0 THEN << >>
    ELSE IF S = {} THEN <<[score |-> NegInf, idx |-> 0 - 1]>> \o TopK(q, S, k - 1)
    ELSE LET b == BestSlot(q, S)
         IN  <<[score |-> InnerProduct(q, index[b + 1]), idx |-> b]>>
                 \o TopK(q, S \ {b}, k - 1)

\* self.index.search(query, k): k (score, slot) pairs, best first, padded
\* with slot -1; only slots whose vector has the index's dimension exist
FaissSearch(q, k) == TopK(q, 0..(Len(index) - 1), k)

\* index.search raises on a query of another dimension and on k < 1
FaissSearchRaises(q, k) == Len(q) # Dim \/ k < 1

RECURSIVE FilterResults(_, _)
FilterResults(hits, threshold) ==
    IF hits = << >> THEN << >>
    ELSE LET h == Head(hits)
             rest == FilterResults(Tail(hits), threshold)
         IN  IF h.score < threshold THEN rest
             ELSE IF h.idx \notin DOMAIN memory_map THEN rest
             ELSE <<[memory_id |-> memory_map[h.idx], score |-> h.score]>> \o rest

RECURSIVE FilterResultsNoThreshold(_, _)
FilterResultsNoThreshold(hits, threshold) ==
    IF hits = << >> THEN << >>
    ELSE LET h == Head(hits)
             rest == FilterResultsNoThreshold(Tail(hits), threshold)
         IN  IF h.idx \notin DOMAIN memory_map THEN rest
             ELSE <<[memory_id |-> memory_map[h.idx], score |-> h.score]>> \o rest

SimilaritySearchNoThreshold(q, k, threshold) ==
    IF FaissSearchRaises(q, k) THEN << >>
    ELSE FilterResultsNoThreshold(FaissSearch(q, k), threshold)

SimilaritySearchResult(q, k, threshold) ==
    IF FaissSearchRaises(q, k) THEN << >>
    ELSE FilterResults(FaissSearch(q, k), threshold)

\* thresholds a similarity_search is called with (inner products are 0 or 1)
Thresholds == {0, 1}

SimilaritySearch(q, k, threshold) ==
    /\ search' = [query |-> q, k |-> k, threshold |-> threshold,
                  results |-> SimilaritySearchResult(q, k, threshold),
                  called |-> TRUE]
    /\ UNCHANGED <<embeddings, index, memory_map, sv, sy, dl>>
    /\ UNCHANGED <<graphVars, engVars, qryVars>>

------------------------------------------------------------------------------
(* sync_index and delete_vectors *)

\* lines 143-160 of sync_index, given the rows the select returned
SyncIndexApply(rows) ==
    IF rows = << >>
      THEN [index |-> index, memory_map |-> memory_map]
      ELSE LET m == [s \in 0..(Len(rows) - 1) |-> rows[s + 1].memory_id]
           IN  IF \E i \in 1..Len(rows) : IndexAddRaises(rows[i].embedding)
                 \* np.vstack / index.add raises after the reset and the map
                 THEN [index |-> InitializeFaiss, memory_map |-> m]
                 ELSE [index |-> [i \in 1..Len(rows) |-> rows[i].embedding],
                       memory_map |-> m]

\* no call of the vector store is in flight
VectorQuiescent ==
    /\ sv.pc \in {"idle", "returned"}
    /\ sy.pc \in {"idle", "returned"}
    /\ dl.pc \in {"idle", "returned"}

\* a caller starts sync_index(); the select is sent
SyncIndexCall ==
    /\ sy.pc \in {"idle", "returned"}
    /\ sy' = [NoSync EXCEPT !.pc = "select"]
    /\ search' = NoSearch
    /\ UNCHANGED <<embeddings, index, memory_map, sv, dl>>
    /\ UNCHANGED <<graphVars, engVars, qryVars>>

\* the durable store answers the select, or the request fails
SyncIndexSelect(ok) ==
    /\ sy.pc = "select"
    /\ sy' = IF ok THEN [sy EXCEPT !.pc = "selected", !.rows = embeddings]
                   ELSE [sy EXCEPT !.pc = "failed"]
    /\ search' = NoSearch
    /\ UNCHANGED <<embeddings, index, memory_map, sv, dl>>
    /\ UNCHANGED <<graphVars, engVars, qryVars>>

SyncIndexReturn ==
    /\ sy.pc \in {"selected", "failed"}
    /\ IF sy.pc = "failed"
         THEN UNCHANGED <<index, memory_map>>
         ELSE LET r == SyncIndexApply(sy.rows)
              IN  /\ index' = r.index
                  /\ memory_map' = r.memory_map
    /\ sy' = [sy EXCEPT !.pc = "returned", !.ok = (sy.pc = "selected"),
                         !.rows = << >>]
    /\ search' = NoSearch
    /\ UNCHANGED <<embeddings, sv, dl>>
    /\ UNCHANGED <<graphVars, engVars, qryVars>>

\* a caller starts delete_vectors(memory_ids); the delete is sent
DeleteVectorsCall(ids) ==
    /\ dl.pc \in {"idle", "returned"}
    /\ dl' = [NoDelete EXCEPT !.pc = "delete", !.memory_ids = ids]
    /\ search' = NoSearch
    /\ UNCHANGED <<embeddings, index, memory_map, sv, sy>>
    /\ UNCHANGED <<graphVars, engVars, qryVars>>

\* the durable store deletes the rows .in_('memory_id', memory_ids), or fails
DeleteVectorsDelete(ok) ==
    /\ dl.pc = "delete"
    /\ IF ok
         THEN /\ embeddings' = SelectSeq(embeddings,
                                  LAMBDA r : r.memory_id \notin dl.memory_ids)
              /\ dl' = [dl EXCEPT !.pc = "select", !.memory_ids = {}]
         ELSE /\ embeddings' = embeddings
              /\ dl' = [NoDelete EXCEPT !.pc = "returned"]
    /\ search' = NoSearch
    /\ UNCHANGED <<index, memory_map, sv, sy>>
    /\ UNCHANGED <<graphVars, engVars, qryVars>>

\* await self.sync_index(): its select
DeleteVectorsSelect(ok) ==
    /\ dl.pc = "select"
    /\ dl' = IF ok THEN [dl EXCEPT !.pc = "selected", !.rows = embeddings]
                   ELSE [dl EXCEPT !.pc = "failed"]
    /\ search' = NoSearch
    /\ UNCHANGED <<embeddings, index, memory_map, sv, sy>>
    /\ UNCHANGED <<graphVars, engVars, qryVars>>

\* await self.sync_index(): its rebuild; then delete_vectors returns
DeleteVectorsReturn ==
    /\ dl.pc \in {"selected", "failed"}
    /\ IF dl.pc = "failed"
         THEN UNCHANGED <<index, memory_map>>
         ELSE LET r == SyncIndexApply(dl.rows)
              IN  /\ index' = r.index
                  /\ memory_map' = r.memory_map
    /\ dl' = [dl EXCEPT !.pc = "returned", !.ok = (dl.pc = "selected"),
                         !.rows = << >>]
    /\ search' = NoSearch
    /\ UNCHANGED <<embeddings, sv, sy>>
    /\ UNCHANGED <<graphVars, engVars, qryVars>>

(***************************************************************************)
(* Durable memories table, MemoryHierarchy                                 *)
(***************************************************************************)
\* ids the memories table may hold (uuid4 values, taken in order)
MemoryIds == 1..MaxMemories

\* str values: a text is a sequence of sentences
Sentence(t, n, d) == [text |-> t, len |-> n, digits |-> d]
TextShort == <<Sentence("btc broke resistance", 30, FALSE)>>
TextLong == <<Sentence("first", 700, FALSE), Sentence("second", 300, FALSE),
              Sentence("third 45k", 400, TRUE)>>

RECURSIVE StrLen(_)
\* len(text): the sentences and the '.' after each
StrLen(t) == IF t = << >> THEN 0 ELSE Head(t).len + 1 + StrLen(Tail(t))

\* scores are kept in thousandths
Thousand == 10 * 100

Edge(p, c, t, r) == [parent |-> p, child |-> c, type |-> t, relevance |-> r]

\* a row of the memories table
Row(c, t, i, a, d) ==
    [content |-> c, type |-> t, importance |-> i, archive_status |-> a,
     created_at |-> d]

\* table.update(fields).eq('id', id): the named columns are written, the
\* others kept
UpdateReplacesRow(row, fields) ==
    [f \in DOMAIN row |->
        IF f \in DOMAIN fields THEN fields[f] ELSE Row(<< >>, "", 0, "", 0)[f]]

UpdateRow(row, fields) ==
    [f \in DOMAIN row |-> IF f \in DOMAIN fields THEN fields[f] ELSE row[f]]

\* rpc get_memory_connections: the edge rows in which the memory is parent or child
GetMemoryConnections(h, m) == {e \in h : e.parent = m \/ e.child = m}

\* rpc get_root_memories: the memories without a parent edge, in id order
RootMemories(mem, h) == {m \in DOMAIN mem : ~\E e \in h : e.child = m}

\* rpc find_similar_memories: the other root memories similar to m at the threshold
SimilarMemories(mem, h, m) ==
    {o \in RootMemories(mem, h) : o # m /\ mem[o].content = mem[m].content}

RECURSIVE SetToSeq(_)
\* the rows of a response, in id order
SetToSeq(S) ==
    IF S = {} THEN << >>
    ELSE LET x == CHOOSE y \in S : \A z \in S : y <= z
         IN  <<x>> \o SetToSeq(S \ {x})

RECURSIVE SumImportance(_, _)
\* sum(m['importance'] for m in memories)
SumImportance(mem, ids) ==
    IF ids = << >> THEN 0
    ELSE mem[Head(ids)].importance + SumImportance(mem, Tail(ids))

\* the id uuid4() gives the next inserted row; 0 when the model has no id left
NextMemoryId(mem) ==
    IF DOMAIN mem = MemoryIds THEN 0
    ELSE CHOOSE i \in MemoryIds \ DOMAIN mem : \A j \in MemoryIds \ DOMAIN mem : i <= j

\* column default of memories.archive_status
DefaultArchiveStatus == "active"

NoAddEdge == [pc |-> "idle", parent |-> 0, child |-> 0, type |-> "", relevance |-> 0,
              inserted |-> FALSE, result |-> None]
NoConsolidate == [pc |-> "idle", queue |-> << >>, similar |-> << >>, new |-> 0,
                  sources |-> {}, link_failed |-> FALSE, done |-> {},
                  signalled |-> FALSE, left_at_signal |-> 0]
NoPrune == [pc |-> "idle", queue |-> << >>, age |-> 0, cutoff |-> 0, threshold |-> 0,
            connected |-> {}, unconnected |-> {}, store_failed |-> FALSE]

------------------------------------------------------------------------------
(* add_memory_relationship *)

\* a caller starts add_memory_relationship(parent, child, type, score): the
\* insert into memory_hierarchies is sent
AddMemoryRelationshipCall(p, c, t, r) ==
    /\ ae.pc \in {"idle", "returned"}
    /\ ae' = [NoAddEdge EXCEPT !.pc = "insert", !.parent = p, !.child = c,
                                !.type = t, !.relevance = r]
    /\ UNCHANGED <<memories, hier, graph, now, cs, pr>>
    /\ UNCHANGED <<vecVars, engVars, qryVars>>

\* the durable store acts on the insert (safe_supabase_execute reports success
\* or failure)
AddMemoryRelationshipInsert(ok) ==
    /\ ae.pc = "insert"
    /\ IF ok
         THEN /\ Cardinality(hier) < MaxEdges
              /\ hier' = hier \cup {Edge(ae.parent, ae.child, ae.type, ae.relevance)}
              /\ ae' = [ae EXCEPT !.pc = "inserted"]
         ELSE /\ hier' = hier
              /\ ae' = [ae EXCEPT !.pc = "failed"]
    /\ UNCHANGED <<memories, graph, now, cs, pr>>
    /\ UNCHANGED <<vecVars, engVars, qryVars>>

\* nx.DiGraph.add_edge(u, v, **attr): one edge per (u, v), attributes replaced
GraphAddEdge(g, e) ==
    {x \in g : ~(x.parent = e.parent /\ x.child = e.child)} \cup {e}

\* lines 43-49: if success, the edge is added to the in-memory graph; the
\* function has no return statement, so the caller receives None either way
AddMemoryRelationshipReturn ==
    /\ ae.pc \in {"inserted", "failed"}
    /\ graph' = IF ae.pc = "inserted"
                  THEN GraphAddEdge(graph, Edge(ae.parent, ae.child, ae.type, ae.relevance))
                  ELSE graph
    /\ ae' = [ae EXCEPT !.pc = "returned", !.inserted = (ae.pc = "inserted"),
                         !.result = None]
    /\ UNCHANGED <<memories, hier, now, cs, pr>>
    /\ UNCHANGED <<vecVars, engVars, qryVars>>

------------------------------------------------------------------------------
(* consolidate_memories *)

\* "\n".join(contents)
RECURSIVE JoinContents(_, _)
JoinContents(mem, ids) ==
    IF ids = << >> THEN << >>
    ELSE mem[Head(ids)].content \o JoinContents(mem, Tail(ids))

\* the associations column of a row: a list of str, one str, or null
AssociationList(items) == [kind |-> "list", items |-> items]
AssociationStr(text) == [kind |-> "str", items |-> {text}]
\* memory.get('associations'): None for a row without the column
GetAssociations(row) ==
    IF "associations" \in DOMAIN row THEN row.associations
    ELSE [kind |-> "null", items |-> {}]

RECURSIVE MergeAssociationsOfLists(_, _)
\* a merge that takes the lists only
MergeAssociationsOfLists(mem, ids) ==
    IF ids = << >> THEN {}
    ELSE LET a == GetAssociations(mem[Head(ids)])
         IN  (IF a.kind = "list" THEN a.items ELSE {})
             \cup MergeAssociationsOfLists(mem, Tail(ids))

RECURSIVE MergeAssociations(_, _)
\* _merge_associations, lines 223-231: the elements of every list and every
\* str, as a set
MergeAssociations(mem, ids) ==
    IF ids = << >> THEN {}
    ELSE LET a == GetAssociations(mem[Head(ids)])
         IN  (IF a.kind = "list" THEN a.items
              ELSE IF a.kind = "str" THEN a.items
              ELSE {})
             \cup MergeAssociations(mem, Tail(ids))

\* _create_consolidated_memory: the row inserted for the group
ConsolidatedRow(mem, ids) ==
    [content |-> JoinContents(mem, ids),
     type |-> "consolidated",
     importance |-> SumImportance(mem, ids) \div Len(ids),
     archive_status |-> DefaultArchiveStatus,
     created_at |-> now,
     associations |-> AssociationList(MergeAssociations(mem, ids))]

\* a caller starts consolidate_memories(threshold): rpc get_root_memories is sent
ConsolidateCall ==
    /\ cs.pc \in {"idle", "returned"}
    /\ cs' = [NoConsolidate EXCEPT !.pc = "roots"]
    /\ UNCHANGED <<memories, hier, graph, now, ae, pr>>
    /\ UNCHANGED <<vecVars, engVars, qryVars>>

\* the response of get_root_memories; without rows, or on an error, the call ends
ConsolidateRoots(ok) ==
    /\ cs.pc = "roots"
    /\ LET roots == SetToSeq(RootMemories(memories, hier))
       IN  cs' = IF ok /\ roots # << >>
                   THEN [cs EXCEPT !.pc = "similar", !.queue = roots]
                   ELSE [NoConsolidate EXCEPT !.pc = "returned"]
    /\ UNCHANGED <<memories, hier, graph, now, ae, pr>>
    /\ UNCHANGED <<vecVars, engVars, qryVars>>

\* the response of find_similar_memories for the root at the head of the loop
ConsolidateSimilar(ok) ==
    /\ cs.pc = "similar"
    /\ LET m == Head(cs.queue)
           sim == IF m \in DOMAIN memories
                    THEN SetToSeq(SimilarMemories(memories, hier, m)) ELSE << >>
       IN  cs' = IF ~ok THEN [NoConsolidate EXCEPT !.pc = "returned", !.done = cs.done]
                 ELSE IF sim # << >> THEN [cs EXCEPT !.pc = "create", !.similar = sim]
                 ELSE IF Tail(cs.queue) = << >>
                        THEN [NoConsolidate EXCEPT !.pc = "returned", !.done = cs.done]
                 ELSE [cs EXCEPT !.queue = Tail(cs.queue)]
    /\ UNCHANGED <<memories, hier, graph, now, ae, pr>>
    /\ UNCHANGED <<vecVars, engVars, qryVars>>

\* the insert of the consolidated memory; an error ends the call (line 175)
ConsolidateCreate(ok) ==
    /\ cs.pc = "create"
    /\ LET id == NextMemoryId(memories)
       IN  IF ok /\ id # 0
             THEN /\ memories' = DictSet(memories, id,
                        ConsolidatedRow(memories, <<Head(cs.queue)>> \o cs.similar))
                  /\ cs' = [cs EXCEPT !.pc = "link", !.new = id,
                                      !.sources = {Head(cs.queue)} \cup
                                          {cs.similar[i] : i \in 1..Len(cs.similar)},
                                      !.link_failed = FALSE]
             ELSE /\ memories' = memories
                  /\ cs' = [NoConsolidate EXCEPT !.pc = "returned", !.done = cs.done]
    /\ UNCHANGED <<hier, graph, now, ae, pr>>
    /\ UNCHANGED <<vecVars, engVars, qryVars>>

\* add_memory_relationship(consolidated, mem, 'consolidated', 1.0) for the next
\* similar memory; a failed insert is logged and the loop goes on. done
\* records the groups whose loop of lines 168-174 has ended
ConsolidateLink(ok) ==
    /\ cs.pc = "link"
    /\ LET e == Edge(cs.new, Head(cs.similar), "consolidated", Thousand)
           done == Tail(cs.similar) = << >>
           inserted == ok /\ Cardinality(hier \cup {e}) <= MaxEdges
           groups == cs.done \cup {[new |-> cs.new, sources |-> cs.sources,
                                    link_failed |-> cs.link_failed \/ ~inserted]}
       IN  /\ IF inserted
                THEN /\ hier' = hier \cup {e}
                     /\ graph' = GraphAddEdge(graph, e)
                ELSE UNCHANGED <<hier, graph>>
           /\ cs' = IF ~done THEN [cs EXCEPT !.similar = Tail(cs.similar),
                                             !.link_failed = @ \/ ~inserted]
                    ELSE IF Tail(cs.queue) = << >>
                           THEN [NoConsolidate EXCEPT !.pc = "returned", !.done = groups]
                    ELSE [cs EXCEPT !.pc = "similar", !.queue = Tail(cs.queue),
                                    !.similar = << >>, !.new = 0, !.sources = {},
                                    !.link_failed = FALSE, !.done = groups]
    /\ UNCHANGED <<memories, now, ae, pr>>
    /\ UNCHANGED <<vecVars, engVars, qryVars>>

------------------------------------------------------------------------------
(* prune_hierarchy *)

\* the names bound in the module namespace of memory/hierarchy.py (its imports
\* and its two classes)
HierarchyGlobalsWithTimedelta ==
    {"List", "Dict", "Any", "Optional", "Set", "dataclass", "datetime",
     "timedelta", "asyncio", "Client", "nx", "json", "logging", "defaultdict",
     "handle_supabase_response", "safe_supabase_execute",
     "MemoryNode", "MemoryHierarchy"}

HierarchyGlobals ==
    {"List", "Dict", "Any", "Optional", "Set", "dataclass", "datetime",
     "asyncio", "Client", "nx", "json", "logging", "defaultdict",
     "handle_supabase_response", "safe_supabase_execute",
     "MemoryNode", "MemoryHierarchy"}

\* evaluating a global name raises NameError unless the module binds it
NameDefined(name) == name \in HierarchyGlobals

\* config['hierarchy']['prune_age_days'] and ['min_importance'] (0.3)
PruneAgeDays == 30
MinImportance == 300

\* .lt('created_at', cutoff).lt('importance', importance_threshold)
PruneCandidates(mem, cutoff, threshold) ==
    {m \in DOMAIN mem : mem[m].created_at < cutoff /\ mem[m].importance < threshold}

\* the loop of lines 300-321 moves to the next candidate, or the call returns
PruneAdvance(p) ==
    IF Tail(p.queue) = << >> THEN [p EXCEPT !.pc = "returned", !.queue = << >>]
    ELSE [p EXCEPT !.pc = "connections", !.queue = Tail(p.queue)]

\* a request to the durable store raised: the except of line 323 logs it and
\* the call returns
PruneStoreError(p) == [p EXCEPT !.pc = "returned", !.store_failed = TRUE]

\* one step of prune_hierarchy: up to the next request the durable store acts
\* on; ok says whether that request succeeds.  Any exception ends the call
\* (line 323).
PruneStep(p, mem, h, ok) ==
    CASE p.pc = "called" ->
           \* line 289: cutoff_date = datetime.now() - timedelta(days=age_threshold)
           IF ~NameDefined("timedelta")
             THEN [pr |-> [p EXCEPT !.pc = "returned"], memories |-> mem, hier |-> h]
             ELSE [pr |-> [p EXCEPT !.pc = "select", !.cutoff = now - p.age],
                   memories |-> mem, hier |-> h]
      [] p.pc = "select" ->
           \* lines 291-298
           LET c == SetToSeq(PruneCandidates(mem, p.cutoff, p.threshold))
           IN  IF ~ok
                 THEN [pr |-> PruneStoreError(p), memories |-> mem, hier |-> h]
               ELSE IF c = << >>
                 THEN [pr |-> [p EXCEPT !.pc = "returned"], memories |-> mem, hier |-> h]
                 ELSE [pr |-> [p EXCEPT !.pc = "connections", !.queue = c],
                       memories |-> mem, hier |-> h]
      [] p.pc = "connections" ->
           \* lines 302-307
           IF ~ok
             THEN [pr |-> PruneStoreError(p), memories |-> mem, hier |-> h]
             ELSE IF GetMemoryConnections(h, Head(p.queue)) = {}
               THEN [pr |-> [p EXCEPT !.pc = "archive"], memories |-> mem, hier |-> h]
               ELSE [pr |-> PruneAdvance(p), memories |-> mem, hier |-> h]
      [] p.pc = "archive" ->
           \* lines 309-312
           IF ~ok
             THEN [pr |-> PruneStoreError(p), memories |-> mem, hier |-> h]
             ELSE [pr |-> [p EXCEPT !.pc = "delete"],
                   memories |-> [m \in DOMAIN mem |->
                       IF m = Head(p.queue)
                         THEN UpdateRow(mem[m], [archive_status |-> "archived"])
                         ELSE mem[m]],
                   hier |-> h]
      [] p.pc = "delete" ->
           \* lines 315-321
           IF ~ok
             THEN [pr |-> PruneStoreError(p), memories |-> mem, hier |-> h]
             ELSE [pr |-> PruneAdvance(p), memories |-> mem,
                   hier |-> h \ GetMemoryConnections(h, Head(p.queue))]

\* a caller starts prune_hierarchy(age_threshold, importance_threshold); the
\* call record notes which memories were candidates at that moment, with and
\* without edges
PruneCallRecord(age, threshold) ==
    LET c == PruneCandidates(memories, now - age, threshold)
    IN  [NoPrune EXCEPT !.pc = "called", !.age = age, !.threshold = threshold,
            !.connected = {m \in c : GetMemoryConnections(hier, m) # {}},
            !.unconnected = {m \in c : GetMemoryConnections(hier, m) = {}}]

PruneCall(age, threshold) ==
    /\ pr.pc \in {"idle", "returned"}
    /\ pr' = PruneCallRecord(age, threshold)
    /\ UNCHANGED <<memories, hier, graph, now, ae, cs>>
    /\ UNCHANGED <<vecVars, engVars, qryVars>>

PruneHierarchy ==
    /\ pr.pc \notin {"idle", "returned"}
    /\ \E ok \in BOOLEAN :
         LET r == PruneStep(pr, memories, hier, ok)
         IN  /\ pr' = r.pr
             /\ memories' = r.memories
             /\ hier' = r.hier
    /\ UNCHANGED <<graph, now, ae, cs>>
    /\ UNCHANGED <<vecVars, engVars, qryVars>>

------------------------------------------------------------------------------
(***************************************************************************)
(* MemoryProcessor: process_new_memory, maintain_memory_system, and        *)
(* MemoryHierarchy.recompute_importance.  The calls of the engine run one  *)
(* at a time; each awaits the durable store step by step.                  *)
(***************************************************************************)

\* content arguments: a str, or a dict
StrContent(t) == [kind |-> "str", body |-> t]
DictContent == [kind |-> "dict", body |-> [symbol |-> "BTC", side |-> "buy"]]

\* json.dumps(content): the text of the dict
JsonDumps(d) ==
    <<Sentence("{\"symbol\": \"" \o d.symbol \o "\", \"side\": \"" \o d.side \o "\"}",
               34, FALSE)>>

\* lines 614-618: json.dumps for a dict, str(content) otherwise
ContentStr(content) ==
    IF content.kind = "dict" THEN JsonDumps(content.body) ELSE content.body

\* _calculate_sentence_importance for sentences that share no word: every
\* term has frequency 1, a sentence with a digit gets the bonus of 1.2
SentenceImportance(s) == IF s.digits THEN (Thousand * 12) \div 10 ELSE Thousand

RECURSIVE InsertByImportance(_, _)
\* sorted(..., reverse=True) is stable: x, which came earlier, goes before the
\* entries that score no more
InsertByImportance(x, sorted) ==
    IF sorted = << >> THEN <<x>>
    ELSE IF SentenceImportance(Head(sorted)) > SentenceImportance(x)
           THEN <<Head(sorted)>> \o InsertByImportance(x, Tail(sorted))
           ELSE <<x>> \o sorted

RECURSIVE SortByImportance(_)
SortByImportance(t) ==
    IF t = << >> THEN << >>
    ELSE InsertByImportance(Head(t), SortByImportance(Tail(t)))

RECURSIVE KeepSentences(_, _, _)
\* lines 311-318: sentences are kept in score order until one does not fit
KeepSentences(sorted, current_length, max_length) ==
    IF sorted = << >> \/ current_length + Head(sorted).len + 2 > max_length
      THEN << >>
      ELSE <<Head(sorted)>>
           \o KeepSentences(Tail(sorted), current_length + Head(sorted).len + 2,
                            max_length)

\* compress_memory_content(content, max_length): '. '.join(kept) + '...'
CompressMemoryContent(content, max_length) ==
    IF StrLen(content) <= max_length THEN content
    ELSE LET kept == KeepSentences(SortByImportance(content), 0, max_length)
         IN  IF kept = << >> THEN << >> ELSE kept \o <<Sentence("...", 2, FALSE)>>

\* len(compressed_content) > 1000
MaxContentLength == 1000

\* memory/utils: "def compress_memory_content", not "async def": the value it
\* returns is a str, and "await" of a str raises TypeError
CompressIsCoroutine == FALSE

\* lines 620-628: the content that is stored
CompressedContent(content_str) ==
    IF StrLen(content_str) > MaxContentLength
      THEN IF CompressIsCoroutine
             THEN CompressMemoryContent(content_str, MaxContentLength)
             ELSE content_str
      ELSE content_str

\* analyze_content: {} when the embedding provider or the search fails
\* (line 87), else a dict with importance and vector_embedding
EmptyAnalysis == << >>
FullAnalysis == [importance |-> 200, vector_embedding |-> TRUE]

\* float(analysis.get("importance", 0.5))
AnalysisImportance(analysis) ==
    IF "importance" \in DOMAIN analysis THEN analysis.importance ELSE Thousand \div 2

\* metadata.get("type", "general")
MetadataType(metadata) ==
    IF "type" \in DOMAIN metadata THEN metadata.type ELSE "general"

\* find_most_similar: the keys of combined_scores are ids of candidates only
\* (a vector result is added when a candidate has its id)
CombinedScores(candidates, vector_results) ==
    {candidates[i].id : i \in 1..Len(candidates)}

\* the id of the memory find_most_similar returns, 0 for None
FindMostSimilar(candidates, vector_results) ==
    LET ids == CombinedScores(candidates, vector_results)
    IN  IF ids = {} THEN 0 ELSE CHOOSE id \in ids : TRUE

\* _calculate_retention_score in thousandths, for rows whose metadata has no
\* connections and no interaction_count and whose emotional_context is neutral:
\* importance * 0.3 + (1 / (1 + age / 30)) * 0.2
RetentionScore(row) ==
    (row.importance * 3) \div 10 + (200 * 30) \div (30 + (now - row.created_at))

\* optimize_memory_storage(memories, max_size): all of them when they fit,
\* else the max_size best by retention score; among equal scores the stable
\* sort keeps the order of the select, which the store does not fix
OptimizeMemoryStorage(mem, ids, max_size) ==
    IF Cardinality(ids) <= max_size THEN {ids}
    ELSE {keep \in SUBSET ids :
            /\ Cardinality(keep) = max_size
            /\ \A a \in keep, b \in ids \ keep :
                  RetentionScore(mem[a]) >= RetentionScore(mem[b])}

\* lines 598-602: update({'archive_status': 'archived'}).not_.in_('id', keep)
\* .eq('type', memory_type)
MaintainArchiveResetsKept(mem, memory_type, keep) ==
    [m \in DOMAIN mem |->
        IF mem[m].type # memory_type THEN mem[m]
        ELSE IF m \in keep THEN UpdateRow(mem[m], [archive_status |-> "active"])
        ELSE UpdateRow(mem[m], [archive_status |-> "archived"])]

MaintainArchive(mem, memory_type, keep) ==
    [m \in DOMAIN mem |->
        IF mem[m].type = memory_type /\ m \notin keep
          THEN UpdateRow(mem[m], [archive_status |-> "archived"])
          ELSE mem[m]]

\* recompute_importance lines 248-274 in thousandths: len(connections) * 0.1
\* * 0.3 + mean(relevance_score) * 0.5 + (1 / (1 + age / 30)) * 0.2
RECURSIVE SumRelevance(_)
SumRelevance(E) ==
    IF E = {} THEN 0
    ELSE LET e == CHOOSE x \in E : TRUE
         IN  e.relevance + SumRelevance(E \ {e})

FinalImportance(connections, age) ==
    Cardinality(connections) * 30
    + (SumRelevance(connections) \div Cardinality(connections)) \div 2
    + (200 * 30) \div (30 + age)

\* config['retrieval']['max_results'] (MEMORY_MAX_RESULTS), scaled down
MaxResults == 1

\* memories that process_new_memory calls add to the model's database
MaxProcessed == 2

\* the calls the serialized engine may have in flight
NoProcess == [pc |-> "idle", content |-> StrContent(<< >>), metadata |-> << >>,
              content_str |-> << >>, compressed_content |-> << >>,
              analysis |-> EmptyAnalysis, id |-> 0, success |-> FALSE,
              stored_memory |-> Row(<< >>, "", 0, "", 0)]
NoMaintain == [pc |-> "idle", types |-> << >>, keep |-> {}, archived_before |-> {},
               failed |-> FALSE, after_failure |-> FALSE]
NoRecompute == [pc |-> "idle", memory_id |-> 0, connections |-> {}, age |-> 0]

EngineQuiescent ==
    /\ pn.pc \in {"idle", "returned"}
    /\ mt.pc \in {"idle", "returned"}
    /\ ri.pc \in {"idle", "returned"}
    /\ ae.pc \in {"idle", "returned"}
    /\ cs.pc \in {"idle", "returned"}
    /\ pr.pc \in {"idle", "returned"}
    /\ sy.pc \in {"idle", "returned"}

\* a call of the engine begins: the records of the calls that have returned
\* are dropped, but for the records the new call sets itself; the tables, the
\* graph and the index stay
StartCall(sets) ==
    /\ EngineQuiescent
    /\ IF "pn" \in sets THEN TRUE ELSE pn' = NoProcess
    /\ IF "mt" \in sets THEN TRUE ELSE mt' = NoMaintain
    /\ IF "ri" \in sets THEN TRUE ELSE ri' = NoRecompute
    /\ IF "ae" \in sets THEN TRUE ELSE ae' = NoAddEdge
    /\ IF "cs" \in sets THEN TRUE ELSE cs' = NoConsolidate
    /\ pr' = NoPrune
    /\ sy' = NoSync
    /\ search' = NoSearch
    /\ UNCHANGED <<memories, hier, graph, now>>
    /\ UNCHANGED <<embeddings, index, memory_map, sv, dl>>
    /\ UNCHANGED qryVars

\* a caller of the engine starts add_memory_relationship(parent, child, type,
\* score)
EngineAddMemoryRelationship(p, c, t, r) ==
    /\ ae' = [NoAddEdge EXCEPT !.pc = "insert", !.parent = p, !.child = c,
                                !.type = t, !.relevance = r]
    /\ StartCall({"ae"})

------------------------------------------------------------------------------
(* process_new_memory *)

\* a caller starts process_new_memory(content, metadata): lines 612-634 run
\* up to the await of analyze_content
ProcessNewMemoryCall(content, metadata) ==
    /\ Cardinality(DOMAIN memories) < MaxProcessed
    /\ pn' = [NoProcess EXCEPT !.pc = "analyze", !.content = content,
                 !.metadata = metadata,
                 !.content_str = ContentStr(content),
                 !.compressed_content = CompressedContent(ContentStr(content))]
    /\ StartCall({"pn"})

\* analyze_content returns; lines 637-654 build memory_data and the insert
\* into memories is sent
ProcessAnalyze(analysis) ==
    /\ pn.pc = "analyze"
    /\ pn' = [pn EXCEPT !.pc = "insert", !.analysis = analysis]
    /\ UNCHANGED <<mt, ri, qryVars>>
    /\ UNCHANGED <<vecVars, graphVars>>

\* the durable store acts on the insert into memories; a failure returns
\* success False (lines 726-731)
ProcessInsertMemory(ok) ==
    /\ pn.pc = "insert"
    /\ LET id == NextMemoryId(memories)
           row == Row(pn.compressed_content, MetadataType(pn.metadata),
                      AnalysisImportance(pn.analysis), "active", now)
       IN  IF ok /\ id # 0
             THEN /\ memories' = DictSet(memories, id, row)
                  /\ pn' = [pn EXCEPT
                        !.pc = IF "vector_embedding" \in DOMAIN pn.analysis
                                 THEN "embedding" ELSE "similar",
                        !.id = id, !.stored_memory = row]
             ELSE /\ memories' = memories
                  /\ pn' = [pn EXCEPT !.pc = "returned", !.success = FALSE]
    /\ UNCHANGED <<hier, graph, now, ae, cs, pr>>
    /\ UNCHANGED <<mt, ri, qryVars>>
    /\ UNCHANGED vecVars

\* the insert into memory_embeddings as a primary write: a failure returns
\* success False
ProcessInsertEmbeddingFails(ok) ==
    /\ pn.pc = "embedding"
    /\ embeddings' = IF ok
                       THEN Append(embeddings,
                                [memory_id |-> pn.id, embedding |-> Embedding(pn.id)])
                       ELSE embeddings
    /\ pn' = IF ok THEN [pn EXCEPT !.pc = "similar"]
                   ELSE [pn EXCEPT !.pc = "returned", !.success = FALSE]
    /\ search' = NoSearch
    /\ UNCHANGED <<index, memory_map, sv, sy, dl>>
    /\ UNCHANGED <<mt, ri, qryVars>>
    /\ UNCHANGED graphVars

\* the durable store acts on the insert into memory_embeddings; a failure is
\* logged (lines 701-705)
ProcessInsertEmbedding(ok) ==
    /\ pn.pc = "embedding"
    /\ embeddings' = IF ok
                       THEN Append(embeddings,
                                [memory_id |-> pn.id, embedding |-> Embedding(pn.id)])
                       ELSE embeddings
    /\ pn' = [pn EXCEPT !.pc = "similar"]
    /\ search' = NoSearch
    /\ UNCHANGED <<index, memory_map, sv, sy, dl>>
    /\ UNCHANGED <<mt, ri, qryVars>>
    /\ UNCHANGED graphVars

\* find_most_similar({'content': content_str}, []) returns; with a match the
\* edge (similar, memory_id, 'semantic') is inserted, and the call returns
\* success True either way (lines 707-724)
ProcessLink ==
    /\ pn.pc = "similar"
    /\ LET similar == FindMostSimilar(<< >>, << >>)
           e == Edge(similar, pn.id, "semantic", Thousand \div 2)
       IN  \E ok \in BOOLEAN :
             IF similar # 0 /\ ok /\ Cardinality(hier \cup {e}) <= MaxEdges
               THEN /\ hier' = hier \cup {e}
                    /\ graph' = GraphAddEdge(graph, e)
               ELSE UNCHANGED <<hier, graph>>
    /\ pn' = [pn EXCEPT !.pc = "returned", !.success = TRUE]
    /\ UNCHANGED <<memories, now, ae, cs, pr>>
    /\ UNCHANGED <<mt, ri, qryVars>>
    /\ UNCHANGED vecVars

------------------------------------------------------------------------------
(* recompute_importance *)

\* a caller starts recompute_importance(memory_id): rpc get_memory_connections
\* is sent
RecomputeCall(m) ==
    /\ ri' = [NoRecompute EXCEPT !.pc = "connections", !.memory_id = m]
    /\ StartCall({"ri"})

\* lines 236-244: without connections, or on an error, the call returns
RecomputeConnections(ok) ==
    /\ ri.pc = "connections"
    /\ LET c == GetMemoryConnections(hier, ri.memory_id)
       IN  ri' = IF ok /\ c # {}
                   THEN [ri EXCEPT !.pc = "select", !.connections = c]
                   ELSE [ri EXCEPT !.pc = "returned"]
    /\ UNCHANGED <<pn, mt, qryVars>>
    /\ UNCHANGED <<vecVars, graphVars>>

\* lines 257-267: the select of created_at; .single() raises without a row
RecomputeSelect(ok) ==
    /\ ri.pc = "select"
    /\ ri' = IF ok /\ ri.memory_id \in DOMAIN memories
               THEN [ri EXCEPT !.pc = "update",
                               !.age = now - memories[ri.memory_id].created_at]
               ELSE [ri EXCEPT !.pc = "returned"]
    /\ UNCHANGED <<pn, mt, qryVars>>
    /\ UNCHANGED <<vecVars, graphVars>>

\* lines 277-280: update({'importance': final_importance}).eq('id', memory_id)
RecomputeUpdate(ok) ==
    /\ ri.pc = "update"
    /\ memories' =
         IF ok /\ ri.memory_id \in DOMAIN memories
           THEN [memories EXCEPT ![ri.memory_id] =
                   UpdateRow(@, [importance |-> FinalImportance(ri.connections, ri.age)])]
           ELSE memories
    /\ ri' = [ri EXCEPT !.pc = "returned"]
    /\ UNCHANGED <<hier, graph, now, ae, cs, pr>>
    /\ UNCHANGED <<pn, mt, qryVars>>
    /\ UNCHANGED vecVars

------------------------------------------------------------------------------
(* maintain_memory_system *)

\* the next memory type of the loop at line 584, or the call of sync_index
MaintainAdvance(m) ==
    IF Tail(m.types) = << >>
      THEN [m EXCEPT !.pc = "sync", !.types = << >>, !.keep = {}]
      ELSE [m EXCEPT !.pc = "select", !.types = Tail(m.types), !.keep = {}]

\* the sync_index call record once maintain has reached line 605
MaintainSync(m) == IF m.pc = "sync" THEN [NoSync EXCEPT !.pc = "select"] ELSE sy

\* lines 607-608: the except of maintain_memory_system logs the failure of a
\* step, and the call returns
MaintainExcept(m) ==
    [m EXCEPT !.pc = "returned", !.types = << >>, !.keep = {}, !.failed = TRUE]

\* the maintenance loop starts maintain_memory_system(): consolidate_memories
\* is called and sends rpc get_root_memories
MaintainCall ==
    /\ mt' = [NoMaintain EXCEPT !.pc = "consolidate",
                 !.archived_before =
                    {m \in DOMAIN memories : memories[m].archive_status = "archived"},
                 !.after_failure = mt.failed]
    /\ cs' = [NoConsolidate EXCEPT !.pc = "roots"]
    /\ StartCall({"mt", "cs"})

\* consolidate_memories has returned: prune_hierarchy(prune_age_days,
\* min_importance) is called
MaintainPrune ==
    /\ mt.pc = "consolidate"
    /\ cs.pc = "returned"
    /\ mt' = [mt EXCEPT !.pc = "prune"]
    /\ pr' = PruneCallRecord(PruneAgeDays, MinImportance)
    /\ UNCHANGED <<memories, hier, graph, now, ae, cs>>
    /\ UNCHANGED <<pn, ri, qryVars>>
    /\ UNCHANGED vecVars

\* prune_hierarchy has returned: the select of the first memory type is sent
MaintainOptimize ==
    /\ mt.pc = "prune"
    /\ pr.pc = "returned"
    /\ mt' = [mt EXCEPT !.pc = "select", !.types = <<"chat_history", "tweet_history">>]
    /\ UNCHANGED <<pn, ri, qryVars>>
    /\ UNCHANGED <<vecVars, graphVars>>

\* lines 585-595: the rows of the type; with rows, optimize_memory_storage
\* picks the ones to keep and the update is sent.  A failed request ends the
\* call in the except of line 607.
MaintainSelect(ok) ==
    /\ mt.pc = "select"
    /\ LET ids == {m \in DOMAIN memories : memories[m].type = Head(mt.types)}
       IN  IF ~ok THEN mt' = MaintainExcept(mt)
           ELSE IF ids = {} THEN mt' = MaintainAdvance(mt)
           ELSE \E keep \in OptimizeMemoryStorage(memories, ids, MaxResults) :
                   mt' = [mt EXCEPT !.pc = "update", !.keep = keep]
    /\ sy' = MaintainSync(mt')
    /\ search' = NoSearch
    /\ UNCHANGED <<embeddings, index, memory_map, sv, dl>>
    /\ UNCHANGED <<pn, ri, qryVars>>
    /\ UNCHANGED graphVars

\* lines 598-602: the durable store acts on the archive update
MaintainUpdate(ok) ==
    /\ mt.pc = "update"
    /\ IF ok
         THEN /\ memories' = MaintainArchive(memories, Head(mt.types), mt.keep)
              /\ mt' = MaintainAdvance(mt)
         ELSE /\ memories' = memories
              /\ mt' = MaintainExcept(mt)
    /\ sy' = MaintainSync(mt')
    /\ search' = NoSearch
    /\ UNCHANGED <<embeddings, index, memory_map, sv, dl>>
    /\ UNCHANGED <<hier, graph, now, ae, cs, pr>>
    /\ UNCHANGED <<pn, ri, qryVars>>

\* sync_index has returned, and so does maintain_memory_system
MaintainReturn ==
    /\ mt.pc = "sync"
    /\ sy.pc = "returned"
    /\ mt' = [mt EXCEPT !.pc = "returned"]
    /\ UNCHANGED <<pn, ri, qryVars>>
    /\ UNCHANGED <<vecVars, graphVars>>

------------------------------------------------------------------------------
(***************************************************************************)
(* MemoryRetrieval._hybrid_search                                          *)
(***************************************************************************)
\* ids and query limits of the hybrid searches
MaxHybridIds == 3
MaxLimit == 2

\* relevance values of sub-search results, in thousandths
Relevances == {300, 900}

SearchResult(id, r) == [memory_id |-> id, relevance |-> r]

ResultIds(results) == {results[i].memory_id : i \in 1..Len(results)}

\* what _semantic_search or _temporal_search may return for a limit: at most
\* limit results, one per memory row, sorted by relevance descending
SubSearchResults(limit) ==
    UNION {
      {r \in [1..n -> {SearchResult(id, s) : id \in 1..MaxHybridIds, s \in Relevances}] :
          /\ \A i, j \in 1..n : i # j => r[i].memory_id # r[j].memory_id
          /\ \A i \in 1..(n - 1) : r[i].relevance >= r[i + 1].relevance}
      : n \in 0..limit }

\* lines 195-200: combined, as the insertion-ordered entries of the dict
RECURSIVE CombineSemantic(_)
CombineSemantic(semantic_results) ==
    IF semantic_results = << >> THEN << >>
    ELSE <<[memory_id |-> Head(semantic_results).memory_id,
            semantic_score |-> Head(semantic_results).relevance,
            temporal_score |-> 0]>>
         \o CombineSemantic(Tail(semantic_results))

\* lines 202-210 for one temporal result: the entry of its id gets the
\* temporal score, or a new entry is added
AddTemporalOverwrites(combined, result) ==
    IF \E i \in 1..Len(combined) : combined[i].memory_id = result.memory_id
      THEN [i \in 1..Len(combined) |->
              IF combined[i].memory_id = result.memory_id
                THEN [memory_id |-> result.memory_id, semantic_score |-> 0,
                      temporal_score |-> result.relevance]
                ELSE combined[i]]
      ELSE Append(combined, [memory_id |-> result.memory_id,
                             semantic_score |-> 0,
                             temporal_score |-> result.relevance])

AddTemporalResult(combined, result) ==
    IF \E i \in 1..Len(combined) : combined[i].memory_id = result.memory_id
      THEN [i \in 1..Len(combined) |->
              IF combined[i].memory_id = result.memory_id
                THEN [combined[i] EXCEPT !.temporal_score = result.relevance]
                ELSE combined[i]]
      ELSE Append(combined, [memory_id |-> result.memory_id,
                             semantic_score |-> 0,
                             temporal_score |-> result.relevance])

RECURSIVE CombineTemporal(_, _)
CombineTemporal(combined, temporal_results) ==
    IF temporal_results = << >> THEN combined
    ELSE CombineTemporal(AddTemporalResult(combined, Head(temporal_results)),
                         Tail(temporal_results))

\* semantic_score * 0.7 + temporal_score * 0.3
FinalScore(entry) == (entry.semantic_score * 7 + entry.temporal_score * 3) \div 10

\* lines 213-221: the results with their final scores, in dict order
FinalResults(combined) ==
    [i \in 1..Len(combined) |->
        SearchResult(combined[i].memory_id, FinalScore(combined[i]))]

RECURSIVE InsertByRelevance(_, _)
\* sorted(results, key=relevance, reverse=True) is stable
InsertByRelevance(x, sorted) ==
    IF sorted = << >> THEN <<x>>
    ELSE IF Head(sorted).relevance > x.relevance
           THEN <<Head(sorted)>> \o InsertByRelevance(x, Tail(sorted))
           ELSE <<x>> \o sorted

RECURSIVE SortByRelevance(_)
SortByRelevance(results) ==
    IF results = << >> THEN << >>
    ELSE InsertByRelevance(Head(results), SortByRelevance(Tail(results)))

\* results[:limit]
Truncate(results, limit) == SubSeq(results, 1, Min(limit, Len(results)))

NoHybrid == [pc |-> "idle", limit |-> 0, semantic |-> << >>, temporal |-> << >>,
             semantic_done |-> FALSE, temporal_done |-> FALSE, first |-> "",
             results |-> << >>]

\* a caller starts _hybrid_search(query, limit): both tasks are created and
\* gathered
HybridSearchCall(limit) ==
    /\ hy.pc \in {"idle", "returned"}
    /\ hy' = [NoHybrid EXCEPT !.pc = "gather", !.limit = limit]
    /\ UNCHANGED <<retVars, embVars, travVars, hlpVars>>
    /\ UNCHANGED <<vecVars, graphVars, engVars>>

\* the semantic task completes with its results
SemanticSearchDone(results) ==
    /\ hy.pc = "gather"
    /\ ~hy.semantic_done
    /\ hy' = [hy EXCEPT !.semantic = results, !.semantic_done = TRUE,
                        !.first = IF hy.first = "" THEN "semantic" ELSE hy.first]
    /\ UNCHANGED <<retVars, embVars, travVars, hlpVars>>
    /\ UNCHANGED <<vecVars, graphVars, engVars>>

\* the temporal task completes with its results
TemporalSearchDone(results) ==
    /\ hy.pc = "gather"
    /\ ~hy.temporal_done
    /\ hy' = [hy EXCEPT !.temporal = results, !.temporal_done = TRUE,
                        !.first = IF hy.first = "" THEN "temporal" ELSE hy.first]
    /\ UNCHANGED <<retVars, embVars, travVars, hlpVars>>
    /\ UNCHANGED <<vecVars, graphVars, engVars>>

\* gather returns both lists in argument order; lines 194-223 combine them
HybridSearchReturn ==
    /\ hy.pc = "gather"
    /\ hy.semantic_done
    /\ hy.temporal_done
    /\ hy' = [hy EXCEPT !.pc = "returned",
                 !.results = Truncate(SortByRelevance(FinalResults(
                                 CombineTemporal(CombineSemantic(hy.semantic),
                                                 hy.temporal))), hy.limit)]
    /\ UNCHANGED <<retVars, embVars, travVars, hlpVars>>
    /\ UNCHANGED <<vecVars, graphVars, engVars>>

------------------------------------------------------------------------------
(***************************************************************************)
(* MemoryRetrieval.search                                                  *)
(***************************************************************************)
\* the strategies a caller may name; "other" is not a key of
\* retrieval_strategies
Strategies == {"semantic", "temporal", "hybrid", "contextual", "other"}

\* lines 49-50: an unknown strategy is replaced by 'hybrid'
RetrievalStrategy(strategy) ==
    IF strategy \in {"semantic", "temporal", "hybrid", "contextual"}
      THEN strategy ELSE "hybrid"

\* what a coroutine ends with: it raised, or it returned a list
Raised == [raised |-> TRUE, results |-> << >>]
Returned(results) == [raised |-> FALSE, results |-> results]

\* an except clause that lets the exception go on to the caller
ExceptReraises(outcome) == outcome

\* "except Exception as e: logging.error(...); return []"
ExceptReturnsEmpty(outcome) ==
    IF outcome.raised THEN Returned(<< >>) ELSE outcome

\* the steps of a sub-search that may fail
SemanticFailures == {"none", "embedding", "index", "select"}
TemporalFailures == {"none", "rpc"}

\* _semantic_search lines 81-119: get_embedding or the select of the rows
\* raises; similarity_search reports its own failure as an empty list
SemanticSearchBody(fails, results) ==
    IF fails \in {"embedding", "select"} THEN Raised
    ELSE IF fails = "index" THEN Returned(<< >>)
    ELSE Returned(results)

\* _temporal_search lines 134-165: the rpc search_memories raises
TemporalSearchBody(fails, results) ==
    IF fails = "rpc" THEN Raised ELSE Returned(results)

\* _contextual_search lines 244-276 with a context: get_embedding raises;
\* similarity_search and _get_memory_with_context_boost report their own
\* failures as no result
ContextualSearchBody(fails, results) ==
    IF fails = "embedding" THEN Raised
    ELSE IF fails \in {"index", "select"} THEN Returned(<< >>)
    ELSE Returned(results)

\* _hybrid_search lines 182-223: gather raises what a task raised, else the
\* two lists are combined
HybridSearchBody(semantic, temporal, limit) ==
    IF semantic.raised \/ temporal.raised THEN Raised
    ELSE Returned(Truncate(SortByRelevance(FinalResults(
             CombineTemporal(CombineSemantic(semantic.results),
                             temporal.results))), limit))

\* the sub-searches a strategy runs; _contextual_search without a context is
\* _hybrid_search (line 242)
Tasks(strategy, context) ==
    IF strategy = "semantic" THEN {"semantic"}
    ELSE IF strategy = "temporal" THEN {"temporal"}
    ELSE IF strategy = "contextual" /\ context THEN {"contextual"}
    ELSE {"semantic", "temporal"}

NoRetrieval == [pc |-> "idle", requested |-> "", strategy |-> "", limit |-> 0,
                context |-> FALSE,
                tasks |-> {}, semantic |-> Returned(<< >>),
                temporal |-> Returned(<< >>), contextual |-> Returned(<< >>),
                failed |-> FALSE, raised |-> FALSE, results |-> << >>]

\* a caller starts search(query, strategy, limit, context); `requested` keeps
\* the strategy the caller named
SearchCall(strategy, limit, context) ==
    /\ sr.pc \in {"idle", "returned"}
    /\ sr' = [NoRetrieval EXCEPT !.pc = "running", !.requested = strategy,
                 !.strategy = RetrievalStrategy(strategy),
                 !.limit = limit, !.context = context,
                 !.tasks = Tasks(RetrievalStrategy(strategy), context)]
    /\ UNCHANGED <<hybVars, embVars, travVars, hlpVars>>
    /\ UNCHANGED <<vecVars, graphVars, engVars>>

\* _semantic_search ends
SemanticSearchReturns(fails, results) ==
    /\ sr.pc = "running"
    /\ "semantic" \in sr.tasks
    /\ sr' = [sr EXCEPT !.tasks = @ \ {"semantic"},
                 !.semantic = ExceptReturnsEmpty(SemanticSearchBody(fails, results)),
                 !.failed = @ \/ fails # "none"]
    /\ UNCHANGED <<hybVars, embVars, travVars, hlpVars>>
    /\ UNCHANGED <<vecVars, graphVars, engVars>>

\* _temporal_search ends
TemporalSearchReturns(fails, results) ==
    /\ sr.pc = "running"
    /\ "temporal" \in sr.tasks
    /\ sr' = [sr EXCEPT !.tasks = @ \ {"temporal"},
                 !.temporal = ExceptReturnsEmpty(TemporalSearchBody(fails, results)),
                 !.failed = @ \/ fails # "none"]
    /\ UNCHANGED <<hybVars, embVars, travVars, hlpVars>>
    /\ UNCHANGED <<vecVars, graphVars, engVars>>

\* the body of _contextual_search with a context ends
ContextualSearchReturns(fails, results) ==
    /\ sr.pc = "running"
    /\ "contextual" \in sr.tasks
    /\ sr' = [sr EXCEPT !.tasks = @ \ {"contextual"},
                 !.contextual = ContextualSearchBody(fails, results),
                 !.failed = @ \/ fails # "none"]
    /\ UNCHANGED <<hybVars, embVars, travVars, hlpVars>>
    /\ UNCHANGED <<vecVars, graphVars, engVars>>

\* what search_func returns or raises (lines 52-58)
SearchFunc(s) ==
    IF s.strategy = "semantic" THEN s.semantic
    ELSE IF s.strategy = "temporal" THEN s.temporal
    ELSE IF s.strategy = "contextual" /\ s.context
           THEN ExceptReturnsEmpty(s.contextual)
    ELSE IF s.strategy = "contextual"
           THEN ExceptReturnsEmpty(ExceptReturnsEmpty(
                    HybridSearchBody(s.semantic, s.temporal, s.limit)))
    ELSE ExceptReturnsEmpty(HybridSearchBody(s.semantic, s.temporal, s.limit))

\* lines 60-71: the results are cached and returned; an exception is logged
\* and [] returned
SearchReturn ==
    /\ sr.pc = "running"
    /\ sr.tasks = {}
    /\ LET outcome == ExceptReturnsEmpty(SearchFunc(sr))
       IN  sr' = [sr EXCEPT !.pc = "returned", !.raised = outcome.raised,
                            !.results = outcome.results]
    /\ UNCHANGED <<hybVars, embVars, travVars, hlpVars>>
    /\ UNCHANGED <<vecVars, graphVars, engVars>>

------------------------------------------------------------------------------
(***************************************************************************)
(* EmbeddingManager.get_embedding                                          *)
(***************************************************************************)
\* texts callers embed, and the callers whose get_embedding calls overlap
NumTexts == 2
MaxCallers == 2
\* "if self.requests_per_minute > 150"
RateLimit == 150

Texts == 1..NumTexts
Callers == 1..MaxCallers
\* the get_embedding coroutines that can exist at once: those of the callers
\* and those asyncio.gather starts for the texts of a batch
NumCoroutines == 11
Coroutines == 1..NumCoroutines
\* self.batch_size
BatchSize == 8

\* asyncio.Semaphore(10)
SemaphoreValue == 10

\* stop_after_attempt(4)
RetryStopsAfterFour(attempt) == attempt >= 4

\* stop_after_attempt(3): no attempt follows the third
RetryStop(attempt) == attempt >= 3

NoGetEmbedding == [pc |-> "idle", text |-> 0, attempt |-> 0, provider_calls |-> 0,
                   slot |-> FALSE, rate |-> FALSE, after |-> << >>,
                   result |-> << >>]

\* callers inside "async with self.semaphore"
Holders(calls) == {c \in DOMAIN calls : calls[c].pc \in {"sleep", "provider"}}

\* a semaphore that never makes a caller wait
SemaphoreNeverLocked(calls) == FALSE

\* asyncio.Semaphore.locked(): no slot is left
SemaphoreLocked(calls) == Cardinality(Holders(calls)) >= SemaphoreValue

\* a caller starts get_embedding(text); after holds the vector an earlier call
\* for this text returned from the provider since the last clear_cache
GetEmbeddingCall(c, text) ==
    /\ ge[c].pc \in {"idle", "returned", "raised"}
    /\ ge' = [ge EXCEPT ![c] = [NoGetEmbedding EXCEPT !.pc = "attempt", !.text = text,
                                   !.attempt = 1,
                                   !.after = IF text \in DOMAIN succeeded
                                               THEN succeeded[text] ELSE << >>]]
    /\ UNCHANGED <<cache, requests_per_minute, succeeded, burst>>
    /\ UNCHANGED <<hybVars, retVars, travVars, hlpVars>>
    /\ UNCHANGED <<vecVars, graphVars, engVars>>

\* "if (now - self.last_request).seconds < 60"
WindowSeconds == 60
\* the provider requests and the seconds of sleep counted in burst
MaxBurst == RateLimit + 1
MaxSleepSeconds == 1
NoBurst == [requests |-> 0, seconds |-> 0]

\* burst after an attempt passed lines 33-42: a pause of 60 seconds or more
\* begins a new burst; the request of an attempt sent to sleep is sent, and
\* counted, when the sleep is over
BurstAfter(b, within, sleeps) ==
    IF ~within THEN [requests |-> 1, seconds |-> 0]
    ELSE IF sleeps THEN b
    ELSE [b EXCEPT !.requests = Min(@ + 1, MaxBurst)]

\* lines 33-42 with the semaphore taken: the request counter
RateLimiting(rpm, within) ==
    IF within THEN rpm + 1 ELSE 1

\* an attempt that enters the semaphore and counts a request before it looks
\* into the cache
GetEmbeddingAttemptSlotFirst(c, within) ==
    /\ ge[c].pc = "attempt"
    /\ ~SemaphoreLocked(ge)
    /\ requests_per_minute' = RateLimiting(requests_per_minute, within)
    /\ burst' = IF ge[c].text \in DOMAIN cache
                  THEN burst
                  ELSE BurstAfter(burst, within, within /\ requests_per_minute + 1 > RateLimit)
    /\ ge' = [ge EXCEPT ![c] =
                IF ge[c].text \in DOMAIN cache
                  THEN [@ EXCEPT !.pc = "returned", !.result = cache[ge[c].text],
                                 !.slot = TRUE, !.rate = TRUE]
                  ELSE [@ EXCEPT !.pc = IF within /\ requests_per_minute + 1 > RateLimit
                                          THEN "sleep" ELSE "provider",
                                 !.slot = TRUE, !.rate = TRUE]]
    /\ UNCHANGED <<cache, succeeded>>
    /\ UNCHANGED <<hybVars, retVars, travVars, hlpVars>>
    /\ UNCHANGED <<vecVars, graphVars, engVars>>

\* an attempt runs lines 28-42: a cached text returns its vector; otherwise the
\* semaphore is entered and the request counted, up to the sleep of line 37 or
\* the provider request of line 47
GetEmbeddingAttempt(c, within) ==
    /\ ge[c].pc = "attempt"
    /\ IF ge[c].text \in DOMAIN cache
         THEN /\ ge' = [ge EXCEPT ![c] = [@ EXCEPT !.pc = "returned",
                                             !.result = cache[ge[c].text]]]
              /\ UNCHANGED <<requests_per_minute, burst>>
         ELSE /\ ~SemaphoreLocked(ge)
              /\ requests_per_minute' = RateLimiting(requests_per_minute, within)
              /\ burst' = BurstAfter(burst, within,
                                     within /\ requests_per_minute + 1 > RateLimit)
              /\ ge' = [ge EXCEPT ![c] =
                          [@ EXCEPT !.pc = IF within /\ requests_per_minute + 1 > RateLimit
                                             THEN "sleep" ELSE "provider",
                                    !.slot = TRUE, !.rate = TRUE]]
    /\ UNCHANGED <<cache, succeeded>>
    /\ UNCHANGED <<hybVars, retVars, travVars, hlpVars>>
    /\ UNCHANGED <<vecVars, graphVars, engVars>>

\* lines 37-38: after the sleep the counter is reset
GetEmbeddingSleepDone(c) ==
    /\ ge[c].pc = "sleep"
    /\ requests_per_minute' = 0
    /\ burst' = [requests |-> Min(burst.requests + 1, MaxBurst),
                 seconds |-> Min(burst.seconds + 1, MaxSleepSeconds)]
    /\ ge' = [ge EXCEPT ![c] = [@ EXCEPT !.pc = "provider"]]
    /\ UNCHANGED <<cache, succeeded>>
    /\ UNCHANGED <<hybVars, retVars, travVars, hlpVars>>
    /\ UNCHANGED <<vecVars, graphVars, engVars>>

\* lines 44-59: the provider answers; its vector is cached and returned, or
\* its error is raised again and tenacity starts the next attempt, unless the
\* stop condition holds: then the call raises RetryError
ProviderResponds(c, ok) ==
    /\ ge[c].pc = "provider"
    /\ LET text == ge[c].text
           embedding == Embedding(text)
       IN  IF ok
             THEN /\ cache' = DictSet(cache, text, embedding)
                  /\ succeeded' = DictSet(succeeded, text, embedding)
                  /\ ge' = [ge EXCEPT ![c] =
                              [@ EXCEPT !.pc = "returned", !.result = embedding,
                                        !.provider_calls = @ + 1]]
             ELSE /\ UNCHANGED <<cache, succeeded>>
                  /\ ge' = [ge EXCEPT ![c] =
                              IF RetryStop(ge[c].attempt)
                                THEN [@ EXCEPT !.pc = "raised",
                                               !.provider_calls = @ + 1]
                                ELSE [@ EXCEPT !.pc = "attempt", !.attempt = @ + 1,
                                               !.provider_calls = @ + 1]]
    /\ UNCHANGED <<requests_per_minute, burst>>
    /\ UNCHANGED <<hybVars, retVars, travVars, hlpVars>>
    /\ UNCHANGED <<vecVars, graphVars, engVars>>

\* clear_cache(): self.cache.clear()
ClearCache ==
    /\ cache' = EmptyDict
    /\ succeeded' = EmptyDict
    /\ ge' = [c \in Coroutines |-> [ge[c] EXCEPT !.after = << >>]]
    /\ UNCHANGED <<requests_per_minute, burst>>
    /\ UNCHANGED <<hybVars, retVars, travVars, hlpVars>>
    /\ UNCHANGED <<vecVars, graphVars, engVars>>

------------------------------------------------------------------------------
(***************************************************************************)
(* MemoryHierarchy.get_memory_tree and find_common_ancestors               *)
(***************************************************************************)
\* memories of the databases the traversals run on, and the depths and
\* distances callers pass
NumNodes == 4
MaxDepth == 2

Nodes == 1..NumNodes

\* build_tree returned None
NoneTree == [none |-> TRUE]
IsNone(tree) == "none" \in DOMAIN tree

\* lines 82-86: the memory_hierarchies rows of parent node_id with
\* relevance_score >= min_relevance, by child id
ChildRows(h, node_id, min_relevance) ==
    LET rows == {e \in h : e.parent = node_id /\ e.relevance >= min_relevance}
        ids == SetToSeq({e.child : e \in rows})
    IN  [i \in 1..Len(ids) |-> CHOOSE e \in rows : e.child = ids[i]]

\* a traversal that only the depth stops
BuildTreeStopsAtDepth(node_id, depth, visited, max_depth) ==
    depth > max_depth

\* line 64: "if depth > max_depth or node_id in visited"
BuildTreeStops(node_id, depth, visited, max_depth) ==
    depth > max_depth \/ node_id \in visited

RECURSIVE BuildTree(_, _, _, _, _, _, _)
RECURSIVE BuildChildren(_, _, _, _, _, _, _)
\* build_tree(node_id, depth), lines 63-107, with the set visited it shares
\* with every other call of the traversal: the tree or None, the set
\* afterwards, and whether the .single() select found no row and raised
BuildTree(mem, h, node_id, depth, visited, max_depth, min_relevance) ==
    IF BuildTreeStops(node_id, depth, visited, max_depth)
      THEN [tree |-> NoneTree, visited |-> visited, raised |-> FALSE]
    ELSE IF node_id \notin DOMAIN mem
      THEN [tree |-> NoneTree, visited |-> visited \cup {node_id}, raised |-> TRUE]
    ELSE LET c == BuildChildren(mem, h, ChildRows(h, node_id, min_relevance),
                                depth, visited \cup {node_id}, max_depth,
                                min_relevance)
         IN  [tree |-> [id |-> node_id, children |-> c.children],
              visited |-> c.visited, raised |-> c.raised]

\* lines 88-98: the loop over the rows of the children
BuildChildren(mem, h, rows, depth, visited, max_depth, min_relevance) ==
    IF rows = << >>
      THEN [children |-> << >>, visited |-> visited, raised |-> FALSE]
    ELSE LET rel == Head(rows)
             child == BuildTree(mem, h, rel.child, depth + 1, visited, max_depth,
                                min_relevance)
             rest == BuildChildren(mem, h, Tail(rows), depth, child.visited,
                                   max_depth, min_relevance)
         IN  IF child.raised
               THEN [children |-> << >>, visited |-> child.visited, raised |-> TRUE]
               ELSE [children |->
                        (IF IsNone(child.tree) THEN << >>
                         ELSE <<[id |-> child.tree.id,
                                 children |-> child.tree.children,
                                 relationship |-> [type |-> rel.type,
                                                   relevance |-> rel.relevance]]>>)
                        \o rest.children,
                     visited |-> rest.visited, raised |-> rest.raised]

NoAncestors == [pc |-> "idle", memory_ids |-> << >>, max_distance |-> 0,
                failed |-> FALSE, result |-> {}]

NoTree == [pc |-> "idle", root_id |-> 0, max_depth |-> 0, min_relevance |-> 0,
           failed |-> FALSE, tree |-> NoneTree]

\* get_memory_tree(root_id, max_depth, min_relevance), lines 61-113: the tree
\* build_tree(root_id, 0) returns, None when a request raised
GetMemoryTree(root_id, max_depth, min_relevance, ok) ==
    /\ LET b == BuildTree(memories, hier, root_id, 0, {}, max_depth, min_relevance)
       IN  gt' = [pc |-> "returned", root_id |-> root_id, max_depth |-> max_depth,
                  min_relevance |-> min_relevance, failed |-> ~ok,
                  tree |-> IF ok /\ ~b.raised THEN b.tree ELSE NoneTree]
    /\ fa' = NoAncestors
    /\ UNCHANGED <<hybVars, retVars, embVars, hlpVars>>
    /\ UNCHANGED <<vecVars, graphVars, engVars>>

RECURSIVE Ancestors(_, _, _)
\* rpc get_memory_ancestors(memory_id, max_distance): the ids from which
\* memory_id is reached along 1 to max_distance edges
Ancestors(h, memory_id, max_distance) ==
    IF max_distance = 0 THEN {}
    ELSE LET parents == {e.parent : e \in {x \in h : x.child = memory_id}}
         IN  parents \cup UNION {Ancestors(h, p, max_distance - 1) : p \in parents}

RECURSIVE SetIntersection(_)
\* line 133: the intersection of the sets of a non-empty list
SetIntersection(sets) ==
    IF Len(sets) = 1 THEN Head(sets)
    ELSE Head(sets) \cap SetIntersection(Tail(sets))

RECURSIVE AncestorSets(_, _, _)
\* lines 122-130: the ancestor sets of the ids, without the empty ones
AncestorSets(h, memory_ids, max_distance) ==
    IF memory_ids = << >> THEN << >>
    ELSE LET data == Ancestors(h, Head(memory_ids), max_distance)
         IN  (IF data # {} THEN <<data>> ELSE << >>)
             \o AncestorSets(h, Tail(memory_ids), max_distance)

\* find_common_ancestors(memory_ids, max_distance), lines 121-138: the
\* intersection of the collected sets, [] without any or when a request raised
FindCommonAncestors(memory_ids, max_distance, ok) ==
    /\ LET ancestors == AncestorSets(hier, memory_ids, max_distance)
       IN  fa' = [pc |-> "returned", memory_ids |-> memory_ids,
                  max_distance |-> max_distance, failed |-> ~ok,
                  result |-> IF ok /\ ancestors # << >>
                               THEN SetIntersection(ancestors) ELSE {}]
    /\ gt' = NoTree
    /\ UNCHANGED <<hybVars, retVars, embVars, hlpVars>>
    /\ UNCHANGED <<vecVars, graphVars, engVars>>

------------------------------------------------------------------------------
(* Specifications *)

vars == <<vecVars, graphVars, engVars, qryVars>>

\* no helper has been called
NoCall == [fn |-> "none"]

\* no search, get_embedding or traversal has been called; the embedding cache
\* is empty
InitQueryVars ==
    /\ hy = NoHybrid
    /\ sr = NoRetrieval
    /\ cache = EmptyDict
    /\ requests_per_minute = 0
    /\ burst = NoBurst
    /\ ge = [c \in Coroutines |-> NoGetEmbedding]
    /\ succeeded = EmptyDict
    /\ gt = NoTree
    /\ fa = NoAncestors
    /\ fc = NoCall

InitGraphVars ==
    /\ hier = {}
    /\ graph = {}
    /\ ae = NoAddEdge
    /\ cs = NoConsolidate
    /\ pr = NoPrune
    /\ pn = NoProcess
    /\ mt = NoMaintain
    /\ ri = NoRecompute
    /\ InitQueryVars

\* the vector store, its calls one at a time, on an empty database
InitVector ==
    /\ embeddings = << >>
    /\ index = InitializeFaiss
    /\ memory_map = EmptyDict
    /\ sv = NoStore
    /\ sy = NoSync
    /\ dl = NoDelete
    /\ search = NoSearch
    /\ memories = EmptyDict
    /\ now = 0
    /\ InitGraphVars

NextVector ==
    \/ VectorQuiescent /\ \E in \in StoreInputs : StoreVectorCall(in[1], in[2])
    \/ \E ok \in BOOLEAN : StoreVectorInsert(ok)
    \/ StoreVectorReturn
    \/ \E q \in Vectors, k \in 0..MaxK, t \in Thresholds : SimilaritySearch(q, k, t)
    \/ VectorQuiescent /\ SyncIndexCall
    \/ \E ok \in BOOLEAN : SyncIndexSelect(ok)
    \/ SyncIndexReturn
    \/ VectorQuiescent /\ \E ids \in (SUBSET MemIds) \ {{}} : DeleteVectorsCall(ids)
    \/ \E ok \in BOOLEAN : DeleteVectorsDelete(ok)
    \/ \E ok \in BOOLEAN : DeleteVectorsSelect(ok)
    \/ DeleteVectorsReturn

SpecVector == InitVector /\ [][NextVector]_vars

\* days that have passed since the rows of the initial database were written
InitialAge == 40

\* the hierarchy over a database that holds two old memories of low importance
\* and equal content; add_memory_relationship, consolidate_memories and
\* prune_hierarchy calls overlap at their awaits
InitGraph ==
    /\ embeddings = [m \in 1..(MaxMemories - 1) |->
                        [memory_id |-> m, embedding |-> Embedding(m)]]
    /\ index = InitializeFaiss
    /\ memory_map = EmptyDict
    /\ sv = NoStore
    /\ sy = NoSync
    /\ dl = NoDelete
    /\ search = NoSearch
    /\ memories = [m \in 1..(MaxMemories - 1) |->
                      Row(TextShort, "general", 200, "active", 0)]
    /\ now = InitialAge
    /\ InitGraphVars

NextGraph ==
    \/ \E p, c \in DOMAIN memories :
          AddMemoryRelationshipCall(p, c, "semantic", 900)
    \/ \E ok \in BOOLEAN : AddMemoryRelationshipInsert(ok)
    \/ AddMemoryRelationshipReturn
    \/ ConsolidateCall
    \/ \E ok \in BOOLEAN : ConsolidateRoots(ok)
    \/ \E ok \in BOOLEAN : ConsolidateSimilar(ok)
    \/ \E ok \in BOOLEAN : ConsolidateCreate(ok)
    \/ \E ok \in BOOLEAN : ConsolidateLink(ok)
    \/ PruneCall(PruneAgeDays, MinImportance)
    \/ PruneHierarchy

SpecGraph == InitGraph /\ [][NextGraph]_vars

\* the engine over an empty database: process_new_memory, add_memory_relationship,
\* recompute_importance and maintain_memory_system calls, one at a time
\* the contents and metadata callers pass: a short and a long str, a dict, and
\* the empty str
ProcessInputs ==
    {<<StrContent(TextShort), [type |-> "chat_history"]>>,
     <<StrContent(TextLong), [type |-> "chat_history"]>>,
     <<DictContent, << >>>>,
     <<StrContent(<< >>), << >>>>}

InitEngine == InitVector

NextEngine ==
    \/ \E in \in ProcessInputs : ProcessNewMemoryCall(in[1], in[2])
    \/ \E a \in {EmptyAnalysis, FullAnalysis} : ProcessAnalyze(a)
    \/ \E ok \in BOOLEAN : ProcessInsertMemory(ok)
    \/ \E ok \in BOOLEAN : ProcessInsertEmbedding(ok)
    \/ ProcessLink
    \/ \E p, c \in DOMAIN memories :
          p < c /\ EngineAddMemoryRelationship(p, c, "semantic", Thousand)
    \/ \E ok \in BOOLEAN : AddMemoryRelationshipInsert(ok)
    \/ AddMemoryRelationshipReturn
    \/ \E m \in DOMAIN memories : RecomputeCall(m)
    \/ \E ok \in BOOLEAN : RecomputeConnections(ok)
    \/ \E ok \in BOOLEAN : RecomputeSelect(ok)
    \/ \E ok \in BOOLEAN : RecomputeUpdate(ok)
    \/ MaintainCall
    \/ \E ok \in BOOLEAN : ConsolidateRoots(ok)
    \/ \E ok \in BOOLEAN : ConsolidateSimilar(ok)
    \/ \E ok \in BOOLEAN : ConsolidateCreate(ok)
    \/ \E ok \in BOOLEAN : ConsolidateLink(ok)
    \/ MaintainPrune
    \/ PruneHierarchy
    \/ MaintainOptimize
    \/ \E ok \in BOOLEAN : MaintainSelect(ok)
    \/ \E ok \in BOOLEAN : MaintainUpdate(ok)
    \/ \E ok \in BOOLEAN : SyncIndexSelect(ok)
    \/ SyncIndexReturn
    \/ MaintainReturn

SpecEngine == InitEngine /\ [][NextEngine]_vars

\* hybrid searches, one at a time, whose two tasks complete in either order
InitHybrid == InitVector

NextHybrid ==
    \/ \E limit \in 1..MaxLimit : HybridSearchCall(limit)
    \/ \E r \in SubSearchResults(hy.limit) : SemanticSearchDone(r)
    \/ \E r \in SubSearchResults(hy.limit) : TemporalSearchDone(r)
    \/ HybridSearchReturn

SpecHybrid == InitHybrid /\ [][NextHybrid]_vars

------------------------------------------------------------------------------
(* Properties of the vector store *)

\* C2: store_vector is atomic as a pair: when it returns ok it has added both
\* the durable row and the index slot, and when it returns failure it has
\* added neither.
C2_StoreVectorAtomic ==
    sv.pc = "returned" =>
        IF sv.result THEN sv.row_added /\ sv.slot_added
                     ELSE ~sv.row_added /\ ~sv.slot_added

\* C5: similarity_search returns at most k pairs, every score is at least the
\* threshold, and the scores are in non-increasing order.
C5_SearchBoundedSorted ==
    search.called =>
        /\ Len(search.results) <= search.k
        /\ \A i \in 1..Len(search.results) :
               search.results[i].score >= search.threshold
        /\ \A i, j \in 1..Len(search.results) :
               i < j => search.results[i].score >= search.results[j].score

\* a search that returned two results with different scores
C5_Witness ==
    /\ search.called
    /\ Len(search.results) = 2
    /\ search.results[1].score > search.results[2].score

\* C6: when sync_index (alone, or as the last step of delete_vectors) completes
\* after reading the durable table, with no other call in flight, the ids of
\* the slot map are exactly the ids of the durable rows.
C6_SyncMatchesDurable ==
    [][ ( /\ \/ sy.pc = "selected" /\ sy'.pc = "returned"
             \/ dl.pc = "selected" /\ dl'.pc = "returned"
          /\ sv.pc \in {"idle", "returned"} )
        => MapIds(memory_map') = RowIds(embeddings') ]_vars

------------------------------------------------------------------------------
(* Properties of the hierarchy *)

HasEdge(h, p, c) == \E e \in h : e.parent = p /\ e.child = c

RECURSIVE ReachableFrom(_, _)
\* the nodes reachable from the set S along one or more edges of h
ReachableFrom(h, S) ==
    LET next == S \cup {e.child : e \in {x \in h : x.parent \in S}}
    IN  IF next = S THEN S ELSE ReachableFrom(h, next)

Descendants(h, n) == ReachableFrom(h, {e.child : e \in {x \in h : x.parent = n}})

Acyclic(h) == \A e \in h : e.parent \notin Descendants(h, e.parent)

C3_ReverseEdgeRejected ==
    ( /\ ae.pc = "returned"
      /\ ae.parent # ae.child
      /\ HasEdge(hier, ae.child, ae.parent) )
    => /\ ~HasEdge(hier, ae.parent, ae.child)
       /\ ~HasEdge(graph, ae.parent, ae.child)

\* C4: the durable edge table and the in-memory graph are acyclic; no memory
\* reaches itself along edges, a self-edge included.
C4_HierarchyAcyclic == Acyclic(hier) /\ Acyclic(graph)

------------------------------------------------------------------------------
(* Properties of the hybrid search *)

\* the relevance a sub-search gave the id, 0 when it did not return the id
ScoreIn(results, id) ==
    IF id \in ResultIds(results)
      THEN results[CHOOSE i \in 1..Len(results) : results[i].memory_id = id].relevance
      ELSE 0

\* the place of an id in the two result lists, the semantic one first
PlaceIn(semantic, temporal, id) ==
    IF id \in ResultIds(semantic)
      THEN CHOOSE i \in 1..Len(semantic) : semantic[i].memory_id = id
      ELSE Len(semantic) + (CHOOSE i \in 1..Len(temporal) : temporal[i].memory_id = id)

\* C7: the list a hybrid search returns is determined by the two sub-search
\* result lists and the limit alone, whichever task completed first: every
\* returned id comes from a sub-search and has relevance 0.7 * semantic +
\* 0.3 * temporal with 0 for a missing side, no id occurs twice, the list is
\* sorted by relevance descending (equal relevances in the order of the
\* lists), and it holds the min(limit, number of ids) best ids.
C7_HybridCombination ==
    hy.pc = "returned" =>
        LET S == hy.semantic
            T == hy.temporal
            R == hy.results
            ids == ResultIds(S) \cup ResultIds(T)
            Score(id) == (7 * ScoreIn(S, id) + 3 * ScoreIn(T, id)) \div 10
            Before(a, b) ==
                \/ Score(a) > Score(b)
                \/ Score(a) = Score(b) /\ PlaceIn(S, T, a) < PlaceIn(S, T, b)
        IN  /\ Len(R) = Min(hy.limit, Cardinality(ids))
            /\ \A i \in 1..Len(R) :
                  /\ R[i].memory_id \in ids
                  /\ R[i].relevance = Score(R[i].memory_id)
            /\ \A i, j \in 1..Len(R) :
                  i < j => /\ R[i].memory_id # R[j].memory_id
                           /\ R[i].relevance >= R[j].relevance
                           /\ Before(R[i].memory_id, R[j].memory_id)
            /\ \A id \in ids \ ResultIds(R), i \in 1..Len(R) :
                  Before(R[i].memory_id, id)

\* a hybrid search whose temporal task completed first, with an id found by
\* both sub-searches and more ids than the limit, has returned
C7_Witness ==
    /\ hy.pc = "returned"
    /\ hy.first = "temporal"
    /\ ResultIds(hy.semantic) \cap ResultIds(hy.temporal) # {}
    /\ Cardinality(ResultIds(hy.semantic) \cup ResultIds(hy.temporal)) > hy.limit
    /\ Len(hy.results) = hy.limit

------------------------------------------------------------------------------
(* Properties of the engine *)

\* C8: when process_new_memory returns success, the row found under the
\* returned id has the content the call stored, and no step of the engine
\* deletes a Memory row or changes a field of an existing row other than
\* importance and archive_status.
C8_ContentRoundTrip ==
    [][ /\ \A m \in DOMAIN memories :
             /\ m \in DOMAIN memories'
             /\ memories'[m] = [memories[m] EXCEPT
                    !.importance = memories'[m].importance,
                    !.archive_status = memories'[m].archive_status]
        /\ (pn'.pc = "returned" /\ pn'.success) =>
             /\ pn'.id \in DOMAIN memories'
             /\ memories'[pn'.id].content = pn'.compressed_content
             /\ memories'[pn'.id].content = pn'.stored_memory.content ]_vars

\* maintenance has archived a memory whose stored text is longer than 1000
\* characters
C8_Witness ==
    /\ mt.pc = "returned"
    /\ \E m \in DOMAIN memories :
          /\ StrLen(memories[m].content) > MaxContentLength
          /\ memories[m].archive_status = "archived"

\* C9: every row a step adds to the memories table has archive_status
\* 'active', and no step changes the archive_status of an archived row.
C9_ArchiveMonotone ==
    [][ \A m \in DOMAIN memories' :
           IF m \in DOMAIN memories
             THEN memories[m].archive_status = "archived"
                     => memories'[m].archive_status = "archived"
             ELSE memories'[m].archive_status = "active" ]_vars

\* a maintain_memory_system call that began with archived memories in the
\* table has returned, and they are archived still
C9_Witness ==
    /\ mt.pc = "returned"
    /\ mt.archived_before # {}
    /\ \A m \in mt.archived_before : memories[m].archive_status = "archived"

\* C11: when prune_hierarchy has returned and no request to the durable store
\* failed, every memory older than the age threshold, below the importance
\* threshold and without an incident edge has archive_status 'archived'.
C11_PruneArchivesCandidates ==
    (pr.pc = "returned" /\ ~pr.store_failed) =>
        \A m \in PruneCandidates(memories, now - pr.age, pr.threshold) :
            GetMemoryConnections(hier, m) = {}
                => memories[m].archive_status = "archived"


------------------------------------------------------------------------------
(* recompute_importance over a hub memory *)

\* edges that meet the hub memory of the initial database
MaxConnections == 11

\* relevance scores of the edges, in [0, 1]
EdgeRelevances == {0, Thousand \div 2, Thousand}

\* days since the hub memory was created
HubAges == {0, PruneAgeDays, 3 * PruneAgeDays}

\* a database in which memory 1 is the parent of n memories, every edge of
\* relevance r, and the rows are d days old; recompute_importance calls, one
\* at a time
InitImportance ==
    \E n \in 1..MaxConnections, r \in EdgeRelevances, d \in HubAges :
        /\ embeddings = << >>
        /\ index = InitializeFaiss
        /\ memory_map = EmptyDict
        /\ sv = NoStore
        /\ sy = NoSync
        /\ dl = NoDelete
        /\ search = NoSearch
        /\ memories = [m \in 1..(n + 1) |-> Row(TextShort, "general", 200, "active", 0)]
        /\ now = d
        /\ hier = {Edge(1, c, "semantic", r) : c \in 2..(n + 1)}
        /\ graph = {Edge(1, c, "semantic", r) : c \in 2..(n + 1)}
        /\ ae = NoAddEdge
        /\ cs = NoConsolidate
        /\ pr = NoPrune
        /\ pn = NoProcess
        /\ mt = NoMaintain
        /\ ri = NoRecompute
        /\ InitQueryVars

NextImportance ==
    \/ \E m \in {1, 2} : RecomputeCall(m)
    \/ \E ok \in BOOLEAN : RecomputeConnections(ok)
    \/ \E ok \in BOOLEAN : RecomputeSelect(ok)
    \/ \E ok \in BOOLEAN : RecomputeUpdate(ok)

SpecImportance == InitImportance /\ [][NextImportance]_vars

\* C12: the importance that recompute_importance has written to the row of a
\* memory, whose edges have relevance scores in [0, 1], is in [0, 1].
C12_ImportanceInUnitInterval ==
    (ri.pc = "returned" /\ ri.memory_id \in DOMAIN memories)
        => memories[ri.memory_id].importance \in 0..Thousand


\* C13: a process_new_memory call that has returned reports success exactly
\* when its insert into memories succeeded, and then the row is in memories,
\* whatever became of the embedding provider, of the insert into
\* memory_embeddings and of the linking step; a memory whose analysis has no
\* vector has no row in memory_embeddings.
C13_StoreDegradesGracefully ==
    pn.pc = "returned" =>
        /\ pn.success = (pn.id # 0)
        /\ pn.success =>
              /\ pn.id \in DOMAIN memories
              /\ memories[pn.id] = pn.stored_memory
              /\ "vector_embedding" \notin DOMAIN pn.analysis
                    => pn.id \notin RowIds(embeddings)

\* a call returned success although its insert into memory_embeddings failed
C13_Witness ==
    /\ pn.pc = "returned"
    /\ pn.success
    /\ "vector_embedding" \in DOMAIN pn.analysis
    /\ pn.id \notin RowIds(embeddings)


\* C14: a process_new_memory call whose content is empty inserts no row into
\* memories and returns a failure.
C14_EmptyContentRejected ==
    (pn.pc # "idle" /\ pn.content_str = << >>) =>
        /\ pn.id = 0
        /\ pn.pc = "returned" => ~pn.success


\* C15: add_memory_relationship reports its outcome: a call that has returned
\* gave its caller ok when it inserted the edge and a failure when it did not.
C15_AddEdgeReportsOutcome ==
    ae.pc = "returned" =>
        ae.result = IF ae.inserted THEN "ok" ELSE "failure"


------------------------------------------------------------------------------
(* MemoryRetrieval.search: searches, one at a time, whose steps may fail *)

InitSearch == InitVector

NextSearch ==
    \/ \E s \in Strategies, limit \in 1..MaxLimit, context \in BOOLEAN :
          SearchCall(s, limit, context)
    \/ \E f \in SemanticFailures, r \in SubSearchResults(sr.limit) :
          SemanticSearchReturns(f, r)
    \/ \E f \in TemporalFailures, r \in SubSearchResults(sr.limit) :
          TemporalSearchReturns(f, r)
    \/ \E f \in SemanticFailures, r \in SubSearchResults(sr.limit) :
          ContextualSearchReturns(f, r)
    \/ SearchReturn

SpecSearch == InitSearch /\ [][NextSearch]_vars

\* C16: a search that has returned, whatever its strategy and whichever of its
\* steps failed, raised nothing and gave its caller a list of at most limit
\* results.
C16_SearchNeverRaises ==
    sr.pc = "returned" =>
        /\ ~sr.raised
        /\ Len(sr.results) <= sr.limit

\* a semantic search whose embedding or store request failed returned []
C16_Witness ==
    /\ sr.pc = "returned"
    /\ sr.strategy = "semantic"
    /\ sr.failed
    /\ sr.semantic = Returned(<< >>)
    /\ ~sr.raised
    /\ sr.results = << >>


------------------------------------------------------------------------------
(* EmbeddingManager: overlapping get_embedding calls and clear_cache *)

InitEmbedding == InitVector

\* the sleep of line 37 lasts a second: no pause of 60 seconds ends while a
\* call sleeps
NoneAsleep == \A c \in Coroutines : ge[c].pc # "sleep"

NextEmbedding ==
    \/ \E c \in Callers, text \in Texts : GetEmbeddingCall(c, text)
    \/ \E c \in Callers, within \in BOOLEAN :
          /\ within \/ NoneAsleep
          /\ GetEmbeddingAttempt(c, within)
    \/ \E c \in Callers : GetEmbeddingSleepDone(c)
    \/ \E c \in Callers, ok \in BOOLEAN : ProviderResponds(c, ok)
    \/ ClearCache

SpecEmbedding == InitEmbedding /\ [][NextEmbedding]_vars

\* C17: a get_embedding call makes at most one provider request per attempt
\* and at most 3 in all; when it has returned its result is the vector of its
\* text, and when it has raised, 3 provider requests failed and it has no
\* vector.
C17_AtMostThreeAttempts ==
    \A c \in Callers :
        /\ ge[c].attempt <= 3
        /\ ge[c].provider_calls <= ge[c].attempt
        /\ ge[c].pc = "returned" => ge[c].result = Embedding(ge[c].text)
        /\ ge[c].pc = "raised" => /\ ge[c].provider_calls = 3
                                   /\ ge[c].result = << >>

\* a call raised after three failed provider requests
C17_Witness ==
    \E c \in Callers :
        /\ ge[c].pc = "raised"
        /\ ge[c].attempt = 3
        /\ ge[c].provider_calls = 3

\* C18: a get_embedding call that began after a call for the same text got a
\* vector from the provider, with no clear_cache since, returns that vector
\* and has made no provider request, entered no semaphore slot and counted no
\* request; every entry of the cache is the vector of a provider request that
\* succeeded.
C18_CacheHit ==
    /\ \A c \in Callers :
          (ge[c].pc = "returned" /\ ge[c].after # << >>) =>
              /\ ge[c].result = ge[c].after
              /\ ge[c].provider_calls = 0
              /\ ~ge[c].slot
              /\ ~ge[c].rate
    /\ \A t \in DOMAIN cache :
          t \in DOMAIN succeeded /\ cache[t] = succeeded[t]

\* a call returned the vector an earlier call had cached
C18_Witness ==
    \E c \in Callers :
        /\ ge[c].pc = "returned"
        /\ ge[c].after # << >>
        /\ ge[c].result = ge[c].after
        /\ ge[c].provider_calls = 0


------------------------------------------------------------------------------
(* MemoryHierarchy: traversals of a hierarchy that is not being written *)

\* the pairs (parent, child) the initial hierarchy may hold: two paths from 1
\* to 4, and an edge from 4 back to 1
TraversalEdges == <<<<1, 2>>, <<1, 3>>, <<2, 4>>, <<3, 4>>, <<4, 1>>>>

\* relevance scores of the edges, below and above the min_relevance passed
TraversalRelevances == {400, 900}
TraversalMinRelevance == Thousand \div 2

\* the hierarchy over four memories and the edges given, with no call made
TraversalOver(edges) ==
    /\ embeddings = << >>
    /\ index = InitializeFaiss
    /\ memory_map = EmptyDict
    /\ sv = NoStore
    /\ sy = NoSync
    /\ dl = NoDelete
    /\ search = NoSearch
    /\ memories = [m \in Nodes |-> Row(TextShort, "general", 200, "active", 0)]
    /\ now = 0
    /\ hier = edges
    /\ graph = edges
    /\ ae = NoAddEdge
    /\ cs = NoConsolidate
    /\ pr = NoPrune
    /\ pn = NoProcess
    /\ mt = NoMaintain
    /\ ri = NoRecompute
    /\ InitQueryVars

InitTraversal ==
    \E w \in [1..Len(TraversalEdges) -> {0} \cup TraversalRelevances] :
        LET edges == {Edge(TraversalEdges[i][1], TraversalEdges[i][2], "semantic", w[i]) :
                         i \in {j \in 1..Len(TraversalEdges) : w[j] # 0}}
        IN  TraversalOver(edges)

NextTraversal ==
    \/ \E root_id \in Nodes, max_depth \in 0..MaxDepth, ok \in BOOLEAN :
          GetMemoryTree(root_id, max_depth, TraversalMinRelevance, ok)
    \/ \E ids \in (SUBSET Nodes) \ {{}}, max_distance \in 1..MaxDepth, ok \in BOOLEAN :
          FindCommonAncestors(SetToSeq(ids), max_distance, ok)

SpecTraversal == InitTraversal /\ [][NextTraversal]_vars

RECURSIVE TreeFollowsPaths(_, _, _, _, _, _)
\* the children of every node of the tree are the targets of its edges with
\* relevance >= min_relevance that are not on the path from the root, down to
\* max_depth edges from the root
TreeFollowsPaths(h, tree, depth, path, max_depth, min_relevance) ==
    LET targets == {e.child : e \in {x \in h : /\ x.parent = tree.id
                                                /\ x.relevance >= min_relevance}}
        kids == {tree.children[i].id : i \in 1..Len(tree.children)}
    IN  /\ kids = IF depth < max_depth THEN targets \ (path \cup {tree.id}) ELSE {}
        /\ Len(tree.children) = Cardinality(kids)
        /\ \A i \in 1..Len(tree.children) :
              TreeFollowsPaths(h, tree.children[i], depth + 1, path \cup {tree.id},
                               max_depth, min_relevance)

\* C19: the tree get_memory_tree returned, no request having failed, has under
\* each node exactly the targets of its edges with score >= min_relevance,
\* but for those on the path from the root, down to max_depth hops.
C19_TreeFollowsEdges ==
    (gt.pc = "returned" /\ ~gt.failed) =>
        /\ ~IsNone(gt.tree)
        /\ TreeFollowsPaths(hier, gt.tree, 0, {}, gt.max_depth, gt.min_relevance)

\* C20: the list find_common_ancestors returned for a non-empty list of ids,
\* no request having failed, holds exactly the memories that are ancestors
\* within max_distance hops of every one of the ids.
C20_CommonAncestors ==
    (fa.pc = "returned" /\ ~fa.failed /\ fa.memory_ids # << >>) =>
        fa.result = {a \in Nodes :
                        \A i \in 1..Len(fa.memory_ids) :
                            a \in Ancestors(hier, fa.memory_ids[i], fa.max_distance)}


\* C21: for every group consolidate_memories has consolidated without a failed
\* insert, the children of the new memory through edges of type 'consolidated'
\* and score 1.0 are exactly the memories whose contents were merged into it.
C21_ConsolidatedChildren ==
    \A g \in cs.done :
        ~g.link_failed =>
            {e.child : e \in {x \in hier : /\ x.parent = g.new
                                           /\ x.type = "consolidated"
                                           /\ x.relevance = Thousand}} = g.sources


------------------------------------------------------------------------------
(* consolidate_memories over two similar roots with associations *)

\* importances of the two roots, in thousandths
SourceImportances == {0, 300, Thousand}

\* values of their associations column
SourceAssociations ==
    {AssociationList({}), AssociationList({"btc", "eth"}), AssociationStr("sol"),
     [kind |-> "null", items |-> {}]}

\* a row with its associations column
WithAssociations(row, a) ==
    [f \in DOMAIN row \cup {"associations"} |->
        IF f = "associations" THEN a ELSE row[f]]

\* a database of two root memories of equal content; consolidate_memories
\* calls, one at a time
InitConsolidate ==
    \E i1, i2 \in SourceImportances, a1, a2 \in SourceAssociations :
        /\ embeddings = << >>
        /\ index = InitializeFaiss
        /\ memory_map = EmptyDict
        /\ sv = NoStore
        /\ sy = NoSync
        /\ dl = NoDelete
        /\ search = NoSearch
        /\ memories = <<WithAssociations(Row(TextShort, "general", i1, "active", 0), a1),
                        WithAssociations(Row(TextShort, "general", i2, "active", 0), a2)>>
        /\ now = 0
        /\ InitGraphVars

NextConsolidate ==
    \/ ConsolidateCall
    \/ \E ok \in BOOLEAN : ConsolidateRoots(ok)
    \/ \E ok \in BOOLEAN : ConsolidateSimilar(ok)
    \/ \E ok \in BOOLEAN : ConsolidateCreate(ok)
    \/ \E ok \in BOOLEAN : ConsolidateLink(ok)

SpecConsolidate == InitConsolidate /\ [][NextConsolidate]_vars

\* C22: the row of a consolidated memory has every association of every source
\* memory, and its importance is the mean of the source importances (in whole
\* thousandths) and lies in [0, 1].
C22_ConsolidatedRow ==
    (cs.pc = "link" /\ cs.new \in DOMAIN memories) =>
        LET row == memories[cs.new]
            n == Cardinality(cs.sources)
            sum == SumImportance(memories, SetToSeq(cs.sources))
        IN  /\ \A m \in cs.sources :
                  GetAssociations(memories[m]).items \subseteq row.associations.items
            /\ n * row.importance <= sum
            /\ sum < n * (row.importance + 1)
            /\ row.importance \in 0..Thousand

\* a consolidated memory was created from a source with a list and a source
\* with a str
C22_Witness ==
    /\ cs.pc = "link"
    /\ cs.new \in DOMAIN memories
    /\ \E m \in cs.sources : GetAssociations(memories[m]).kind = "str"
    /\ \E m \in cs.sources : GetAssociations(memories[m]).kind = "list"
                              /\ GetAssociations(memories[m]).items # {}
    /\ memories[cs.new].associations.items = {"btc", "eth", "sol"}


(***************************************************************************)
(* MemoryRetrieval: context boosts and filters                             *)
(***************************************************************************)
\* a row of the memories table as the searches read it
SearchRow(i, t, imp, p, e, d, topic) ==
    [id |-> i, type |-> t, importance |-> imp, platform |-> p,
     emotional_context |-> e, created_at |-> d, metadata |-> [topic |-> topic]]

\* SearchResult(memory_id, content, relevance, metadata, created_at): a
\* dataclass instance, which has attributes and no items
ResultObject(row, relevance) ==
    [class |-> "SearchResult", memory_id |-> row.id, relevance |-> relevance,
     metadata |-> row.metadata, created_at |-> row.created_at]

\* None, where a SearchResult can be returned
NoneObject == [class |-> "NoneType"]

\* memory[key] raises TypeError on an object that is not a dict
Subscriptable(memory) == "class" \notin DOMAIN memory

\* a context or filters dict: `given` holds the keys that are present
Context(given, e, p, t) ==
    [given |-> given, emotional_state |-> e, platform |-> p, timeframe |-> t]

Filters(given, t, imp, p, start, end, meta) ==
    [given |-> given, type |-> t, importance |-> imp, platform |-> p,
     date_range |-> [start |-> start, end |-> end], metadata |-> meta]

\* context.get(key): None, which is false, for a key that is absent
ContextGet(context, key) == IF key \in context.given THEN context[key] ELSE ""

\* lines 319-342: boost = 1.0, plus 0.2, 0.1 and 0.15 or 0.1, in thousandths
ContextBoost(memory, context, today) ==
    LET memory_age == today - memory.created_at
        timeframe == ContextGet(context, "timeframe")
    IN  Thousand
        + (IF /\ ContextGet(context, "emotional_state") # ""
              /\ memory.emotional_context = context.emotional_state
             THEN 200 ELSE 0)
        + (IF /\ ContextGet(context, "platform") # ""
              /\ memory.platform = context.platform
             THEN 100 ELSE 0)
        + (IF timeframe = "recent" /\ memory_age < 7 THEN 150
           ELSE IF timeframe = "month" /\ memory_age < 30 THEN 100
           ELSE 0)

\* _get_memory_with_context_boost, lines 300-357: .single() raises without a
\* row and the except returns None; final_score = base_score * boost
GetMemoryWithContextBoost(mem, memory_id, context, base_score, today) ==
    IF memory_id \notin DOMAIN mem THEN NoneObject
    ELSE ResultObject(mem[memory_id],
             (base_score * ContextBoost(mem[memory_id], context, today)) \div Thousand)

\* one key of the loop of _apply_filters, lines 362-379: TRUE when the loop
\* goes on to the next key
FilterPasses(memory, filters, key) ==
    IF key = "type" THEN memory.type = filters.type
    ELSE IF key = "importance" THEN ~(memory.importance < filters.importance)
    ELSE IF key = "platform" THEN memory.platform = filters.platform
    ELSE IF key = "date_range"
           THEN /\ filters.date_range.start <= memory.created_at
                /\ memory.created_at <= filters.date_range.end
    ELSE \A kv \in filters.metadata :
             /\ kv[1] \in DOMAIN memory.metadata
             /\ memory.metadata[kv[1]] = kv[2]

\* the keys at which the loop subscripts memory
FilterSubscripts(filters) ==
    {key \in filters.given : key = "metadata" => filters.metadata # {}}

\* _apply_filters, lines 359-386: False at the first key that fails, and
\* False from the except when a subscript raises
ApplyFilters(memory, filters) ==
    IF ~Subscriptable(memory) /\ FilterSubscripts(filters) # {} THEN FALSE
    ELSE \A key \in FilterSubscripts(filters) : FilterPasses(memory, filters, key)

\* [memory_id for memory_id, _ in similar_vectors]
HitIds(similar_vectors) ==
    {similar_vectors[i].memory_id : i \in 1..Len(similar_vectors)}

\* scores = {memory_id: score for memory_id, score in similar_vectors}
HitScore(similar_vectors, memory_id) ==
    LET i == CHOOSE j \in 1..Len(similar_vectors) :
                 /\ similar_vectors[j].memory_id = memory_id
                 /\ \A l \in (j + 1)..Len(similar_vectors) :
                        similar_vectors[l].memory_id # memory_id
    IN  similar_vectors[i].score

RECURSIVE ContextualResults(_, _, _, _, _)
\* the loop of lines 265-274: a hit is appended when the boost found its row
\* and either no filters were given or _apply_filters accepts the boosted
\* SearchResult
ContextualResults(mem, similar_vectors, context, filters, today) ==
    IF similar_vectors = << >> THEN << >>
    ELSE LET hit == Head(similar_vectors)
             memory == GetMemoryWithContextBoost(mem, hit.memory_id, context,
                                                 hit.score, today)
             rest == ContextualResults(mem, Tail(similar_vectors), context,
                                       filters, today)
         IN  IF /\ memory.class # "NoneType"
                /\ (filters.given = {} \/ ApplyFilters(memory, filters))
               THEN <<memory>> \o rest
               ELSE rest

RECURSIVE SemanticResults(_, _, _, _)
\* the loop of lines 108-118 over the rows of the select, in id order
SemanticResults(mem, ids, similar_vectors, filters) ==
    IF ids = << >> THEN << >>
    ELSE LET memory == mem[Head(ids)]
             rest == SemanticResults(mem, Tail(ids), similar_vectors, filters)
         IN  IF filters.given # {} /\ ~ApplyFilters(memory, filters) THEN rest
             ELSE <<ResultObject(memory, HitScore(similar_vectors, memory.id))>>
                      \o rest

\* lines 155-156: 1.0 / (1.0 + age / 30)
TimeRelevance(age) == (30 * Thousand) \div (30 + age)

RECURSIVE TemporalResults(_, _, _, _)
\* the loop of lines 151-164 over the rows of search_memories
TemporalResults(mem, ids, filters, today) ==
    IF ids = << >> THEN << >>
    ELSE LET memory == mem[Head(ids)]
             rest == TemporalResults(mem, Tail(ids), filters, today)
         IN  IF filters.given # {} /\ ~ApplyFilters(memory, filters) THEN rest
             ELSE <<ResultObject(memory, TimeRelevance(today - memory.created_at))>>
                      \o rest

\* _contextual_search with a context, lines 244-276, on the hits the index
\* returned
ContextualSearch(similar_vectors, context, filters, limit) ==
    /\ context.given # {}
    /\ fc = NoCall
    /\ LET results == ContextualResults(memories, similar_vectors, context,
                                        filters, now)
       IN  fc' = [fn |-> "contextual", similar_vectors |-> similar_vectors,
                  context |-> context, filters |-> filters,
                  candidates |-> HitIds(similar_vectors) \cap DOMAIN memories,
                  kept |-> ResultIds(results),
                  results |-> Truncate(SortByRelevance(results), limit)]
    /\ UNCHANGED <<hybVars, retVars, embVars, travVars>>
    /\ UNCHANGED <<vecVars, graphVars, engVars>>

\* _semantic_search, lines 83-120, on the hits the index returned
SemanticSearch(similar_vectors, filters, limit) ==
    /\ fc = NoCall
    /\ LET ids == SetToSeq(HitIds(similar_vectors) \cap DOMAIN memories)
           results == SemanticResults(memories, ids, similar_vectors, filters)
       IN  fc' = [fn |-> "semantic", similar_vectors |-> similar_vectors,
                  context |-> Context({}, "", "", ""), filters |-> filters,
                  candidates |-> HitIds(similar_vectors) \cap DOMAIN memories,
                  kept |-> ResultIds(results),
                  results |-> Truncate(SortByRelevance(results), limit)]
    /\ UNCHANGED <<hybVars, retVars, embVars, travVars>>
    /\ UNCHANGED <<vecVars, graphVars, engVars>>

\* _temporal_search, lines 135-167: search_memories returns at most
\* limit * 2 rows
TemporalSearch(filters, limit) ==
    /\ fc = NoCall
    /\ LET ids == Truncate(SetToSeq(DOMAIN memories), limit * 2)
           results == TemporalResults(memories, ids, filters, now)
       IN  fc' = [fn |-> "temporal", similar_vectors |-> << >>,
                  context |-> Context({}, "", "", ""), filters |-> filters,
                  candidates |-> {ids[i] : i \in 1..Len(ids)},
                  kept |-> ResultIds(results),
                  results |-> Truncate(SortByRelevance(results), limit)]
    /\ UNCHANGED <<hybVars, retVars, embVars, travVars>>
    /\ UNCHANGED <<vecVars, graphVars, engVars>>

\* the caller has taken the result
HelperReturn ==
    /\ fc # NoCall
    /\ fc' = NoCall
    /\ UNCHANGED <<hybVars, retVars, embVars, travVars>>
    /\ UNCHANGED <<vecVars, graphVars, engVars>>

\* the day of the searches
Today == 40

\* type, importance, platform, emotional_context, created_at and topic of the
\* rows a search can meet: 3, 20 and 40 days old
RowShapes ==
    {<<"general", 200, "twitter", "joy", 37, "btc">>,
     <<"general", 800, "chat", "fear", 20, "eth">>,
     <<"consolidated", 500, "twitter", "fear", 0, "btc">>}

\* ids with a row; the index can also return an id whose row is gone
NumSearchRows == 2

Contexts ==
    {c \in {Context(g, "joy", "twitter", t) :
                g \in SUBSET {"emotional_state", "platform", "timeframe"},
                t \in {"recent", "month"}} :
        /\ c.given # {}
        /\ "timeframe" \notin c.given => c.timeframe = "recent"}

FilterChoices ==
    {Filters(g, "general", 500, "twitter", 20, 37, meta) :
         g \in {{}, {"type"}, {"importance"}, {"platform"}, {"date_range"},
                {"metadata"}, {"type", "importance"}},
         meta \in {{<<"topic", "btc">>}}}
    \cup {Filters({"metadata"}, "general", 500, "twitter", 20, 37, {})}

Hit(i, s) == [memory_id |-> i, score |-> s]

SimilarVectorLists ==
    {<< >>, <<Hit(1, 800)>>, <<Hit(2, 400)>>, <<Hit(1, 800), Hit(2, 400)>>,
     <<Hit(2, 800), Hit(1, 400)>>, <<Hit(3, 800), Hit(1, 400)>>}

InitContextual ==
    /\ embeddings = << >>
    /\ index = InitializeFaiss
    /\ memory_map = EmptyDict
    /\ sv = NoStore
    /\ sy = NoSync
    /\ dl = NoDelete
    /\ search = NoSearch
    /\ \E shapes \in [1..NumSearchRows -> RowShapes] :
          memories = [i \in 1..NumSearchRows |->
                         SearchRow(i, shapes[i][1], shapes[i][2], shapes[i][3],
                                   shapes[i][4], shapes[i][5], shapes[i][6])]
    /\ now = Today
    /\ InitGraphVars

NextContextual ==
    \/ fc = NoCall /\ \E v \in SimilarVectorLists, c \in Contexts, f \in FilterChoices,
                       l \in 1..MaxLimit : ContextualSearch(v, c, f, l)
    \/ fc = NoCall /\ \E v \in SimilarVectorLists, f \in FilterChoices,
                       l \in 1..MaxLimit : SemanticSearch(v, f, l)
    \/ fc = NoCall /\ \E f \in FilterChoices, l \in 1..MaxLimit : TemporalSearch(f, l)
    \/ HelperReturn

SpecContextual == InitContextual /\ [][NextContextual]_vars

\* the boosts the context grants a row, in thousandths
ApplicableBoosts(memory, context, today) ==
    ContextBoost(memory, context, today) - Thousand

\* C23: in contextual search with a context, the relevance of every hit is its
\* similarity score from the index plus the sum of the boosts that apply, so
\* that the amount added does not depend on the base score
C23_AdditiveBoost ==
    fc.fn = "contextual" =>
        \A i \in 1..Len(fc.results) :
            LET r == fc.results[i]
            IN  r.relevance = HitScore(fc.similar_vectors, r.memory_id)
                              + ApplicableBoosts(memories[r.memory_id], fc.context, now)

\* a memory satisfies every constraint that was given
SatisfiesFilters(memory, filters) ==
    \A key \in filters.given : FilterPasses(memory, filters, key)

\* C24: every strategy keeps a candidate memory exactly when it satisfies every
\* given constraint, contextual search as semantic and temporal search do
C24_FiltersIdentical ==
    fc.fn \in {"contextual", "semantic", "temporal"} =>
        \A id \in fc.candidates :
            id \in fc.kept <=> SatisfiesFilters(memories[id], fc.filters)

\* C24 holds of the two strategies that filter the rows of the table
FiltersOfRowStrategies ==
    fc.fn \in {"semantic", "temporal"} =>
        \A id \in fc.candidates :
            id \in fc.kept <=> SatisfiesFilters(memories[id], fc.filters)


\* C25: when process_new_memory has stored a memory with content and another
\* stored memory has the same content, the hierarchy holds a 'semantic' edge from an existing
\* memory to the new one
C25_SemanticEdgeAdded ==
    (/\ pn.pc = "returned"
     /\ pn.success
     /\ pn.id \in DOMAIN memories
     /\ memories[pn.id].content # << >>
     /\ \E m \in DOMAIN memories \ {pn.id} :
           memories[m].content = memories[pn.id].content)
        => \E e \in hier : /\ e.type = "semantic"
                           /\ e.child = pn.id
                           /\ e.parent \in DOMAIN memories \ {pn.id}


(***************************************************************************)
(* MemoryRetrieval.expand_search_context                                   *)
(***************************************************************************)
\* rpc get_related_memories(memory_ids): the memories an edge of the
\* hierarchy joins to one of the ids, in id order
RelatedMemories(h, memory_ids) ==
    SetToSeq({e.child : e \in {x \in h : x.parent \in memory_ids}}
             \cup {e.parent : e \in {x \in h : x.child \in memory_ids}})

\* 0.5 ** (current_depth + 1), in thousandths
Decay(hop) == Thousand \div (2 ^ hop)

RECURSIVE AppendRelatedUnseen(_, _, _)
\* a loop that appends every row of the response
AppendRelatedUnseen(expanded, data, hop) ==
    IF data = << >> THEN expanded
    ELSE AppendRelatedUnseen(Append(expanded, SearchResult(Head(data), Decay(hop))),
                             Tail(data), hop)

RECURSIVE AppendRelated(_, _, _)
\* the loop of lines 414-423: a row whose id is not in seen_ids is appended;
\* seen_ids holds the ids of expanded_results at every step
AppendRelated(expanded, data, hop) ==
    IF data = << >> THEN expanded
    ELSE IF Head(data) \in ResultIds(expanded)
           THEN AppendRelated(expanded, Tail(data), hop)
    ELSE AppendRelated(Append(expanded, SearchResult(Head(data), Decay(hop))),
                       Tail(data), hop)

\* what expand_search_context has when it leaves the loop
Expansion(raised, results, lookups) ==
    [raised |-> raised, results |-> results, lookups |-> lookups]

RECURSIVE ExpandLoop(_, _, _, _, _)
\* the loop of lines 401-423: round current_depth + 1 looks up the memories
\* related to all of expanded_results; the lookup of round fail_at raises, an
\* empty response ends the loop
ExpandLoop(h, expanded, current_depth, depth, fail_at) ==
    IF current_depth >= depth THEN Expansion(FALSE, expanded, current_depth)
    ELSE IF fail_at = current_depth + 1
           THEN Expansion(TRUE, expanded, current_depth + 1)
    ELSE LET data == RelatedMemories(h, ResultIds(expanded))
         IN  IF data = << >> THEN Expansion(FALSE, expanded, current_depth + 1)
             ELSE ExpandLoop(h, AppendRelated(expanded, data, current_depth + 1),
                             current_depth + 1, depth, fail_at)

\* expand_search_context, lines 388-429
ExpandSearchContext(initial_results, depth, fail_at) ==
    /\ fc = NoCall
    /\ LET out == IF initial_results = << >> \/ depth < 1
                    THEN Expansion(FALSE, initial_results, 0)
                    ELSE ExpandLoop(hier, initial_results, 0, depth, fail_at)
       IN  fc' = [fn |-> "expand", initial_results |-> initial_results,
                  depth |-> depth, failed |-> out.raised, lookups |-> out.lookups,
                  results |-> IF out.raised THEN initial_results ELSE out.results]
    /\ UNCHANGED <<hybVars, retVars, embVars, travVars>>
    /\ UNCHANGED <<vecVars, graphVars, engVars>>

\* the results a caller passes: none, one, two, and two of one id
InitialResultLists ==
    {<< >>, <<SearchResult(1, 900)>>, <<SearchResult(2, 900), SearchResult(3, 300)>>,
     <<SearchResult(1, 900), SearchResult(1, 300)>>}

InitExpand == InitTraversal

NextExpand ==
    \/ fc = NoCall /\ \E r \in InitialResultLists, depth \in (0 - 1)..MaxDepth,
                       fail_at \in 0..MaxDepth :
                       ExpandSearchContext(r, depth, fail_at)
    \/ HelperReturn

SpecExpand == InitExpand /\ [][NextExpand]_vars

RECURSIVE WithinHops(_, _, _)
\* the ids joined to one of `ids` by at most `hops` edges, `ids` included
WithinHops(h, ids, hops) ==
    IF hops = 0 THEN ids
    ELSE LET near == WithinHops(h, ids, hops - 1)
             data == RelatedMemories(h, near)
         IN  near \cup {data[i] : i \in 1..Len(data)}

\* the number of edges between `ids` and memory_id, when it is within `most`
HopsTo(h, ids, memory_id, most) ==
    CHOOSE hop \in 0..most :
        /\ memory_id \in WithinHops(h, ids, hop)
        /\ \A less \in 0..(hop - 1) : memory_id \notin WithinHops(h, ids, less)

\* C26: expand_search_context returns the initial results as a prefix, no id
\* twice when the initial ids are distinct, after at most depth lookups, and a
\* memory found in round hop has relevance 0.5^hop; with depth < 1 or a failed
\* lookup it returns the initial results
C26_ExpandSearchContext ==
    fc.fn = "expand" =>
        LET initial == fc.initial_results
            results == fc.results
            n == Len(initial)
        IN  /\ Len(results) >= n
            /\ SubSeq(results, 1, n) = initial
            /\ Cardinality(ResultIds(initial)) = n
                   => Cardinality(ResultIds(results)) = Len(results)
            /\ fc.lookups <= (IF fc.depth < 1 THEN 0 ELSE fc.depth)
            /\ (fc.depth < 1 \/ fc.failed) => results = initial
            /\ \A i \in (n + 1)..Len(results) :
                   /\ results[i].memory_id \in
                          WithinHops(hier, ResultIds(initial), fc.depth)
                   /\ LET hop == HopsTo(hier, ResultIds(initial),
                                        results[i].memory_id, fc.depth)
                      IN  hop >= 1 /\ results[i].relevance = Decay(hop)
            /\ ~fc.failed /\ fc.depth >= 1 /\ n > 0 =>
                   ResultIds(results) = WithinHops(hier, ResultIds(initial), fc.depth)

\* an expansion of two rounds found a memory in each
C26_Witness ==
    /\ fc.fn = "expand"
    /\ fc.depth = 2
    /\ ~fc.failed
    /\ \E i, j \in 1..Len(fc.results) :
          /\ fc.results[i].relevance = Decay(1)
          /\ fc.results[j].relevance = Decay(2)


(***************************************************************************)
(* MemoryRetrieval.search_by_emotional_trajectory                          *)
(***************************************************************************)
\* the elements of a list, as a set
Elements(list) == {list[i] : i \in 1..Len(list)}

\* lines 439-447: the rows whose emotional_context is in emotion_sequence, not
\* older than the cutoff when a time window is given, in id order
TrajectoryCandidates(mem, emotion_sequence, time_window, today) ==
    SetToSeq({m \in DOMAIN mem :
                 /\ mem[m].emotional_context \in Elements(emotion_sequence)
                 /\ time_window # 0 => mem[m].created_at >= today - time_window})

RECURSIVE EmotionGroup(_, _, _)
\* lines 452-455: emotion_groups[target], in the order of the response
EmotionGroup(mem, data, target) ==
    IF data = << >> THEN << >>
    ELSE (IF mem[Head(data)].emotional_context = target THEN <<Head(data)>> ELSE << >>)
             \o EmotionGroup(mem, Tail(data), target)

\* a check of the temporal ordering that lets equal timestamps through
OutOfOrderStrictly(mem, current_sequence, memory) ==
    /\ current_sequence # << >>
    /\ mem[memory].created_at < mem[current_sequence[Len(current_sequence)]].created_at

\* lines 478-479: the memory is skipped when it is not later than the last one
\* of current_sequence
OutOfOrder(mem, current_sequence, memory) ==
    /\ current_sequence # << >>
    /\ mem[memory].created_at <= mem[current_sequence[Len(current_sequence)]].created_at

\* lines 462-470: the SearchResults of current_sequence, relevance 1.0
ChainResults(current_sequence) ==
    [i \in 1..Len(current_sequence) |-> SearchResult(current_sequence[i], Thousand)]

RECURSIVE FindSequences(_, _, _, _, _)
RECURSIVE FindSequencesLoop(_, _, _, _, _, _)
\* find_sequences(current_idx), lines 461-484: the chains it appends to results
FindSequences(mem, data, emotion_sequence, current_idx, current_sequence) ==
    IF current_idx = Len(emotion_sequence) THEN <<ChainResults(current_sequence)>>
    ELSE FindSequencesLoop(mem, data, emotion_sequence, current_idx, current_sequence,
                           EmotionGroup(mem, data, emotion_sequence[current_idx + 1]))

\* the loop of lines 474-484 over the rest of emotion_groups[target_emotion]
FindSequencesLoop(mem, data, emotion_sequence, current_idx, current_sequence, group) ==
    IF group = << >> THEN << >>
    ELSE (IF OutOfOrder(mem, current_sequence, Head(group)) THEN << >>
          ELSE FindSequences(mem, data, emotion_sequence, current_idx + 1,
                             Append(current_sequence, Head(group))))
         \o FindSequencesLoop(mem, data, emotion_sequence, current_idx,
                              current_sequence, Tail(group))

\* search_by_emotional_trajectory, lines 431-492; a select that fails raises
\* and the except returns []
SearchByEmotionalTrajectory(emotion_sequence, time_window, ok) ==
    /\ fc = NoCall
    /\ LET data == TrajectoryCandidates(memories, emotion_sequence, time_window, now)
       IN  fc' = [fn |-> "trajectory", emotion_sequence |-> emotion_sequence,
                  time_window |-> time_window, failed |-> ~ok,
                  candidates |-> IF ok THEN Elements(data) ELSE {},
                  results |-> IF ~ok \/ data = << >> THEN << >>
                              ELSE FindSequences(memories, data, emotion_sequence,
                                                 0, << >>)]
    /\ UNCHANGED <<hybVars, retVars, embVars, travVars>>
    /\ UNCHANGED <<vecVars, graphVars, engVars>>

\* the rows of a trajectory search and the days they were written on
NumTrajectoryRows == 3
MaxDay == 3
MaxSequence == 3

Emotions == {"joy", "fear", "calm"}

\* the sequences a caller asks for, of two of the labels
EmotionSequences ==
    UNION {[1..n -> {"joy", "fear"}] : n \in 0..MaxSequence}

InitTrajectory ==
    /\ embeddings = << >>
    /\ index = InitializeFaiss
    /\ memory_map = EmptyDict
    /\ sv = NoStore
    /\ sy = NoSync
    /\ dl = NoDelete
    /\ search = NoSearch
    /\ \E e \in [1..NumTrajectoryRows -> Emotions],
          d \in [1..NumTrajectoryRows -> 1..MaxDay] :
          memories = [i \in 1..NumTrajectoryRows |->
                         SearchRow(i, "general", 500, "twitter", e[i], d[i], "btc")]
    /\ now = MaxDay
    /\ InitGraphVars

NextTrajectory ==
    \/ fc = NoCall /\ \E s \in EmotionSequences, w \in 0..1, ok \in BOOLEAN :
                       SearchByEmotionalTrajectory(s, w, ok)
    \/ HelperReturn

SpecTrajectory == InitTrajectory /\ [][NextTrajectory]_vars

\* a chain of candidates for a sequence: one memory per label, each with its
\* label, written strictly later than the one before
IsChain(chain, candidates, emotion_sequence) ==
    /\ Len(chain) = Len(emotion_sequence)
    /\ \A i \in 1..Len(chain) :
          /\ chain[i] \in candidates
          /\ memories[chain[i]].emotional_context = emotion_sequence[i]
    /\ \A i \in 1..(Len(chain) - 1) :
          memories[chain[i]].created_at < memories[chain[i + 1]].created_at

\* the memory ids of a returned chain
ChainIds(results) == [i \in 1..Len(results) |-> results[i].memory_id]

\* C27: every chain search_by_emotional_trajectory returns has the length of
\* emotion_sequence, the i-th label at its i-th memory and strictly increasing
\* timestamps, and every such chain of one or more candidates is returned
\* exactly once
C27_TrajectorySoundComplete ==
    (fc.fn = "trajectory" /\ ~fc.failed) =>
        /\ \A i \in 1..Len(fc.results) :
              IsChain(ChainIds(fc.results[i]), fc.candidates, fc.emotion_sequence)
        /\ \A chain \in [1..Len(fc.emotion_sequence) -> fc.candidates] :
              (Len(chain) >= 1 /\ IsChain(chain, fc.candidates, fc.emotion_sequence))
                  => Cardinality({i \in 1..Len(fc.results) :
                                      ChainIds(fc.results[i]) = chain}) = 1

\* a search for a sequence of two labels returned two chains, with rows of
\* equal timestamps among the candidates
C27_Witness ==
    /\ fc.fn = "trajectory"
    /\ Len(fc.emotion_sequence) = 2
    /\ Len(fc.results) = 2
    /\ \E a, b \in fc.candidates :
          a # b /\ memories[a].created_at = memories[b].created_at


(***************************************************************************)
(* MemoryProcessor.cluster_memories                                        *)
(***************************************************************************)
\* len(words1 & words2) / len(words1 | words2), in thousandths; the division
\* is by zero when neither content has a word
WordSimilarity(words1, words2) ==
    (Cardinality(words1 \cap words2) * Thousand) \div Cardinality(words1 \cup words2)

\* the cosine of the embeddings of memories i and j, as the provider's vectors
\* give it
VectorSimilarity(cosines, i, j) ==
    IF i = j THEN Thousand ELSE cosines[IF i < j THEN <<i, j>> ELSE <<j, i>>]

\* line 253: combined_similarity = (word_similarity + vector_similarity) / 2
CombinedSimilarity(contents, cosines, i, j) ==
    (WordSimilarity(contents[i], contents[j]) + VectorSimilarity(cosines, i, j)) \div 2

\* the indices the inner loop of lines 237-257 compares with the seed
Compared(contents, used, i) == (1..Len(contents)) \ (used \cup {i})

\* line 244 raises ZeroDivisionError for a compared pair of contents
\* without words
ComparisonRaises(contents, used, i) ==
    \E j \in Compared(contents, used, i) : contents[i] \cup contents[j] = {}

\* lines 233-257: the seed, then every compared memory whose combined
\* similarity reaches the threshold, in index order
ClusterOf(contents, cosines, used, i, similarity_threshold) ==
    <<i>> \o SetToSeq({j \in Compared(contents, used, i) :
                          CombinedSimilarity(contents, cosines, i, j)
                              >= similarity_threshold})

\* a cluster is kept only when it is larger than min_size
KeepClusterAbove(cluster, min_size) == Len(cluster) > min_size

\* line 259: if len(cluster) >= min_size
KeepCluster(cluster, min_size) == Len(cluster) >= min_size

Clustering(raised, clusters) == [raised |-> raised, clusters |-> clusters]

RECURSIVE ClusterLoop(_, _, _, _, _, _, _)
\* the loop of lines 226-267 from index i on: a used index is skipped; the
\* members of a cluster are used whether the cluster is kept or not
ClusterLoop(contents, cosines, i, used, clusters, min_size, similarity_threshold) ==
    IF i > Len(contents) THEN Clustering(FALSE, clusters)
    ELSE IF i \in used
           THEN ClusterLoop(contents, cosines, i + 1, used, clusters, min_size,
                            similarity_threshold)
    ELSE IF ComparisonRaises(contents, used, i) THEN Clustering(TRUE, << >>)
    ELSE LET cluster == ClusterOf(contents, cosines, used, i, similarity_threshold)
         IN  ClusterLoop(contents, cosines, i + 1, used \cup Elements(cluster),
                         IF KeepCluster(cluster, min_size)
                           THEN Append(clusters, [centroid |-> i, memories |-> cluster])
                           ELSE clusters,
                         min_size, similarity_threshold)

\* cluster_memories, lines 209-273; get_embedding raising, like the division,
\* is caught and [] returned
ClusterMemories(contents, cosines, min_size, similarity_threshold, ok) ==
    /\ fc = NoCall
    /\ LET out == IF contents = << >> THEN Clustering(FALSE, << >>)
                  ELSE IF ~ok THEN Clustering(TRUE, << >>)
                  ELSE ClusterLoop(contents, cosines, 1, {}, << >>, min_size,
                                   similarity_threshold)
       IN  fc' = [fn |-> "cluster", contents |-> contents, cosines |-> cosines,
                  min_size |-> min_size,
                  similarity_threshold |-> similarity_threshold,
                  failed |-> out.raised, results |-> out.clusters]
    /\ UNCHANGED <<hybVars, retVars, embVars, travVars>>
    /\ UNCHANGED <<vecVars, graphVars, engVars>>

\* at most this many memories are clustered, and min_size goes one further
MaxClusterInput == 4

\* the words of a content: two contents that share one word of two, and one
\* without words
WordSets == {{"btc", "up"}, {"btc", "down"}, {}}

\* cosines of two embeddings, in thousandths
Cosines == {400, Thousand}

\* the thresholds a caller passes: the default 0.7, and 1.0
SimilarityThresholds == {700, Thousand}

IndexPairs(n) == {p \in (1..n) \X (1..n) : p[1] < p[2]}

InitCluster == InitVector

NextCluster ==
    \/ fc = NoCall /\ \E n \in 0..MaxClusterInput :
          \E contents \in [1..n -> WordSets], cosines \in [IndexPairs(n) -> Cosines],
             min_size \in 1..(MaxClusterInput + 1), t \in SimilarityThresholds,
             ok \in BOOLEAN :
             ClusterMemories(contents, cosines, min_size, t, ok)
    \/ HelperReturn

SpecCluster == InitCluster /\ [][NextCluster]_vars

\* C28: the clusters are pairwise disjoint, each has at least min_size
\* memories, and every member other than the seed has combined similarity of
\* at least the threshold to the seed; three memories of pairwise combined
\* similarity >= 0.7 give one cluster of three for min_size 3 and none for
\* min_size 4
C28_Clusters ==
    fc.fn = "cluster" =>
        LET clusters == fc.results
            n == Len(fc.contents)
        IN  /\ \A a, b \in 1..Len(clusters) :
                  a # b => Elements(clusters[a].memories)
                               \cap Elements(clusters[b].memories) = {}
            /\ \A a \in 1..Len(clusters) :
                  /\ Len(clusters[a].memories) >= fc.min_size
                  /\ Cardinality(Elements(clusters[a].memories))
                         = Len(clusters[a].memories)
                  /\ clusters[a].centroid \in Elements(clusters[a].memories)
                  /\ \A j \in Elements(clusters[a].memories) \ {clusters[a].centroid} :
                        CombinedSimilarity(fc.contents, fc.cosines,
                                           clusters[a].centroid, j)
                            >= fc.similarity_threshold
            /\ (/\ n = 3
                /\ ~fc.failed
                /\ fc.similarity_threshold = 700
                /\ \A p \in IndexPairs(n) :
                      CombinedSimilarity(fc.contents, fc.cosines, p[1], p[2]) >= 700)
                   => /\ fc.min_size = 3 =>
                            /\ Len(clusters) = 1
                            /\ Len(clusters[1].memories) = 3
                      /\ fc.min_size = 4 => clusters = << >>

\* three near-duplicates were clustered with min_size 3 and threshold 0.7, two
\* of them with combined similarity exactly 0.7 to the seed
C28_Witness ==
    /\ fc.fn = "cluster"
    /\ Len(fc.contents) = 3
    /\ fc.min_size = 3
    /\ fc.similarity_threshold = 700
    /\ Len(fc.results) = 1
    /\ Len(fc.results[1].memories) = 3
    /\ \E j \in 2..3 : CombinedSimilarity(fc.contents, fc.cosines, 1, j) = 700


\* the keys of self.retrieval_strategies
KnownStrategies == {"semantic", "temporal", "hybrid", "contextual"}

\* C29: a search called with a strategy that is not one of the four known tags
\* is rejected: no strategy is selected for it and no sub-search runs or has run
C29_UnknownStrategyRejected ==
    (sr.pc \in {"running", "returned"} /\ sr.requested \notin KnownStrategies) =>
        /\ sr.strategy \notin KnownStrategies
        /\ sr.tasks = {}
        /\ sr.semantic = Returned(<< >>)
        /\ sr.temporal = Returned(<< >>)
        /\ sr.results = << >>


(***************************************************************************)
(* VectorStore: calls that overlap at their awaits                         *)
(***************************************************************************)
\* one store_vector, one sync_index and one delete_vectors call may be in
\* flight together; each resumes after its await whenever the durable store
\* has answered
NextVectorConcurrent ==
    \/ \E in \in StoreInputs : StoreVectorCall(in[1], in[2])
    \/ \E ok \in BOOLEAN : StoreVectorInsert(ok)
    \/ StoreVectorReturn
    \/ SyncIndexCall
    \/ \E ok \in BOOLEAN : SyncIndexSelect(ok)
    \/ SyncIndexReturn
    \/ \E ids \in (SUBSET MemIds) \ {{}} : DeleteVectorsCall(ids)
    \/ \E ok \in BOOLEAN : DeleteVectorsDelete(ok)
    \/ \E ok \in BOOLEAN : DeleteVectorsSelect(ok)
    \/ DeleteVectorsReturn

SpecVectorConcurrent == InitVector /\ [][NextVectorConcurrent]_vars

\* the slots of the index that the map gives to a memory id
SlotsOf(id) == {s \in DOMAIN memory_map : s < Len(index) /\ memory_map[s] = id}

\* C30: once every store_vector, delete_vectors and sync_index call has
\* completed, however they interleaved, the id of every durable row has exactly
\* one slot of the index and no slot maps to an id without a durable row
C30_IndexMatchesDurable ==
    VectorQuiescent =>
        /\ \A id \in RowIds(embeddings) : Cardinality(SlotsOf(id)) = 1
        /\ MapIds(memory_map) \subseteq RowIds(embeddings)

\* a store_vector that wrote its row and its slot and a sync_index that read
\* the table have both completed, no delete_vectors was ever called, and the
\* stored id has a durable row and no slot
StoreLostBySync ==
    /\ VectorQuiescent
    /\ dl.pc = "idle"
    /\ sv.pc = "returned" /\ sv.result /\ sv.row_added /\ sv.slot_added
    /\ sy.pc = "returned" /\ sy.ok
    /\ sv.memory_id \in RowIds(embeddings)
    /\ SlotsOf(sv.memory_id) = {}


\* C31: at every point where a similarity_search can run, the keys of the slot
\* map are exactly the slots 0..ntotal-1 of the index
C31_MapMatchesSlots ==
    DOMAIN memory_map = 0..(Len(index) - 1)


\* the (parent, child) pairs of a set of edges
EdgePairs(edges) == {<<e.parent, e.child>> : e \in edges}

\* no call of the hierarchy is in flight
GraphQuiescent ==
    /\ ae.pc \in {"idle", "returned"}
    /\ cs.pc \in {"idle", "returned"}
    /\ pr.pc \in {"idle", "returned"}

\* C32: once no add_edge, consolidate_memories or prune_hierarchy call is in
\* flight, the edges of the in-memory graph are the edges of the durable
\* memory_hierarchies table
C32_GraphMirrorsTable == GraphQuiescent => EdgePairs(graph) = EdgePairs(hier)

\* an edge of the in-memory graph always has its durable row
GraphWithinTable == EdgePairs(graph) \subseteq EdgePairs(hier)


\* the edges memory_hierarchies may hold when the process starts: none, or
\* one written by an earlier process
DurableEdgesAtStart == {{}, {Edge(1, 2, "semantic", 900)}}

\* MemoryHierarchy is constructed over a database an earlier process may have
\* written to: __init__ makes an empty DiGraph and reads no row
InitGraphRestart ==
    /\ embeddings = [m \in 1..(MaxMemories - 1) |->
                        [memory_id |-> m, embedding |-> Embedding(m)]]
    /\ index = InitializeFaiss
    /\ memory_map = EmptyDict
    /\ sv = NoStore
    /\ sy = NoSync
    /\ dl = NoDelete
    /\ search = NoSearch
    /\ memories = [m \in 1..(MaxMemories - 1) |->
                      Row(TextShort, "general", 200, "active", 0)]
    /\ now = InitialAge
    /\ hier \in DurableEdgesAtStart
    /\ graph = {}
    /\ ae = NoAddEdge
    /\ cs = NoConsolidate
    /\ pr = NoPrune
    /\ pn = NoProcess
    /\ mt = NoMaintain
    /\ ri = NoRecompute
    /\ InitQueryVars

SpecGraphRestart == InitGraphRestart /\ [][NextGraph]_vars


------------------------------------------------------------------------------
(* EmbeddingManager: the semaphore under get_embedding and batch_get_embeddings *)

\* batch_get_embeddings, lines 63-67, for a list of at most batch_size texts:
\* asyncio.gather starts one get_embedding coroutine for every text of the batch
BatchGetEmbeddings(batch, texts) ==
    /\ batch # {}
    /\ Cardinality(batch) <= BatchSize
    /\ \A c \in batch : ge[c].pc \in {"idle", "returned", "raised"}
    /\ ge' = [c \in Coroutines |->
                IF c \in batch
                  THEN [NoGetEmbedding EXCEPT !.pc = "attempt", !.text = texts[c],
                                             !.attempt = 1,
                                             !.after = IF texts[c] \in DOMAIN succeeded
                                                         THEN succeeded[texts[c]]
                                                         ELSE << >>]
                  ELSE ge[c]]
    /\ UNCHANGED <<cache, requests_per_minute, succeeded, burst>>
    /\ UNCHANGED <<hybVars, retVars, travVars, hlpVars>>
    /\ UNCHANGED <<vecVars, graphVars, engVars>>

\* the coroutines of the batch, and those of the callers of get_embedding
BatchCoroutines == 1..BatchSize
SingleCoroutines == Coroutines \ BatchCoroutines
\* every coroutine embeds a text of its own, so none is served from the cache
OwnText == [c \in Coroutines |-> c]
\* the coroutines whose provider requests can fail
FailingCoroutines == {1}

\* the event loop runs the coroutines it was given in the order they were
\* started: a first attempt does not overtake the first attempt of a coroutine
\* started before it
RunsInOrder(c) ==
    ge[c].attempt = 1 =>
        \A d \in Coroutines : d < c => ~(ge[d].pc = "attempt" /\ ge[d].attempt = 1)

\* get_embedding is waiting for a slot of the semaphore
Waiting(c) == ge[c].pc = "attempt" /\ SemaphoreLocked(ge)

NextSemaphore ==
    \/ /\ \A c \in Coroutines : ge[c].pc = "idle"
       /\ BatchGetEmbeddings(BatchCoroutines, OwnText)
    \/ \E c \in SingleCoroutines :
          /\ ge[c].pc = "idle"
          /\ \A d \in Coroutines : d < c => ge[d].pc # "idle"
          /\ GetEmbeddingCall(c, OwnText[c])
    \/ \E c \in Coroutines : RunsInOrder(c) /\ GetEmbeddingAttempt(c, FALSE)
    \/ \E c \in Coroutines, ok \in BOOLEAN :
          /\ ok \/ c \in FailingCoroutines
          /\ ProviderResponds(c, ok)

\* the event loop does not stop while a coroutine can run or a provider
\* request is unanswered: every request is answered or fails, and a coroutine
\* that can run is run
FairSemaphore == WF_vars(NextSemaphore)

SpecSemaphore == InitEmbedding /\ [][NextSemaphore]_vars /\ FairSemaphore

\* provider requests in flight
InFlight == {c \in Coroutines : ge[c].pc = "provider"}

\* C33: under any interleaving of get_embedding and batch_get_embeddings at
\* most 10 provider requests are in flight, and every coroutine waiting for a
\* slot of the semaphore eventually gets one: again and again no coroutine is
\* left before the semaphore
C33_SemaphoreBoundsAndServes ==
    /\ [](Cardinality(InFlight) <= 10)
    /\ []<>(\A c \in Coroutines : ge[c].pc # "attempt")

\* ten provider requests are in flight and an eleventh coroutine waits
C33_Witness ==
    /\ Cardinality(InFlight) = 10
    /\ \E c \in Coroutines : Waiting(c)

------------------------------------------------------------------------------
(* EmbeddingManager: the request budget of a burst of calls *)

\* calls made one right after the other: less than 60 seconds lie between a
\* request and the one before it, and only the sleep of line 37 takes time
NextBurst ==
    \/ \E c \in Callers, text \in Texts : GetEmbeddingCall(c, text)
    \/ \E c \in Callers : GetEmbeddingAttempt(c, TRUE)
    \/ \E c \in Callers : GetEmbeddingSleepDone(c)
    \/ \E c \in Callers, ok \in BOOLEAN : ProviderResponds(c, ok)

SpecBurst == InitEmbedding /\ [][NextBurst]_vars

\* C34: no more than 150 provider requests are sent within any 60 seconds:
\* a burst of calls that lasted less than 60 seconds sent at most 150
C34_RollingBudget ==
    burst.seconds < WindowSeconds => burst.requests <= RateLimit

\* the request counter never passes the limit by more than the callers that
\* can be inside the semaphore
CounterBounded == requests_per_minute <= RateLimit + MaxCallers
\* C35: a store_vector call whose durable insert failed returns failure only
\* after 3 insert attempts
C35_InsertRetried ==
    (sv.pc = "returned" /\ ~sv.result /\ ~sv.row_added) => sv.inserts = 3
------------------------------------------------------------------------------
(* MemoryHierarchy.get_memory_tree over hierarchies with cycles and self-edges *)

\* memories the edges of a cyclic hierarchy join, and the deepest max_depth
\* passed: more than there are memories
NumCycleNodes == 3
CycleDepth == 5

\* every set of edges over the memories, the edges n -> n among them
InitCycles ==
    \E pairs \in SUBSET ((1..NumCycleNodes) \X (1..NumCycleNodes)) :
        TraversalOver({Edge(p[1], p[2], "semantic", 900) : p \in pairs})

NextCycles ==
    \E root_id \in Nodes, max_depth \in 0..CycleDepth, ok \in BOOLEAN :
        GetMemoryTree(root_id, max_depth, TraversalMinRelevance, ok)

SpecCycles == InitCycles /\ [][NextCycles]_vars

RECURSIVE NoIdTwiceOnPath(_, _)
\* no id of the tree is the id of one of its ancestors in the tree
NoIdTwiceOnPath(tree, path) ==
    /\ tree.id \notin path
    /\ \A i \in 1..Len(tree.children) :
          NoIdTwiceOnPath(tree.children[i], path \cup {tree.id})

RECURSIVE TreeSize(_)
\* the nodes of a tree
TreeSize(tree) ==
    LET RECURSIVE Sum(_)
        Sum(i) == IF i = 0 THEN 0 ELSE TreeSize(tree.children[i]) + Sum(i - 1)
    IN  1 + Sum(Len(tree.children))

\* C36: get_memory_tree returns for every set of edges, cycles and n -> n
\* edges included, after building at most one node per memory, and in the
\* tree it returns no memory id occurs twice on a path from the root
C36_TreeTerminatesWithoutRepeats ==
    (gt.pc = "returned" /\ ~IsNone(gt.tree)) =>
        /\ NoIdTwiceOnPath(gt.tree, {})
        /\ TreeSize(gt.tree) <= NumNodes

\* a tree was returned for a root with an edge to itself that lies on a cycle,
\* with a max_depth greater than the number of memories
C36_Witness ==
    /\ gt.pc = "returned"
    /\ ~IsNone(gt.tree)
    /\ gt.max_depth = CycleDepth
    /\ \E e \in hier : e.parent = gt.root_id /\ e.child = gt.root_id
    /\ \E e, f \in hier : /\ e.parent = gt.root_id /\ e.child # gt.root_id
                          /\ f.parent = e.child /\ f.child = gt.root_id
    /\ Len(gt.tree.children) > 0
------------------------------------------------------------------------------
(* MemGPTService._memory_maintenance_loop *)

\* a loop that ends with the tick that failed
LoopEndsOnFailure(m) == m.pc \in {"idle", "returned"} /\ ~m.failed

\* letta_service.py 302-308, "while True": when maintain_memory_system has
\* returned the loop sleeps and calls it again, whatever the tick did
LoopResumes(m) == m.pc \in {"idle", "returned"}

\* the loop runs a tick
MaintenanceLoopTick == LoopResumes(mt) /\ MaintainCall

\* the loop starts over a database of two old memories, each a 'general' or a
\* 'chat_history' memory
InitMaintenanceLoop ==
    /\ embeddings = [m \in 1..(MaxMemories - 1) |->
                        [memory_id |-> m, embedding |-> Embedding(m)]]
    /\ index = InitializeFaiss
    /\ memory_map = EmptyDict
    /\ sv = NoStore
    /\ sy = NoSync
    /\ dl = NoDelete
    /\ search = NoSearch
    /\ memories \in [1..(MaxMemories - 1) ->
                        {Row(TextShort, t, 200, "active", 0) : t \in {"general", "chat_history"}}]
    /\ now = InitialAge
    /\ InitGraphVars

\* the maintenance loop over a database no other call writes to
NextMaintenanceLoop ==
    \/ MaintenanceLoopTick
    \/ \E ok \in BOOLEAN : ConsolidateRoots(ok)
    \/ \E ok \in BOOLEAN : ConsolidateSimilar(ok)
    \/ \E ok \in BOOLEAN : ConsolidateCreate(ok)
    \/ \E ok \in BOOLEAN : ConsolidateLink(ok)
    \/ MaintainPrune
    \/ PruneHierarchy
    \/ MaintainOptimize
    \/ \E ok \in BOOLEAN : MaintainSelect(ok)
    \/ \E ok \in BOOLEAN : MaintainUpdate(ok)
    \/ \E ok \in BOOLEAN : SyncIndexSelect(ok)
    \/ SyncIndexReturn
    \/ MaintainReturn

\* every request of a tick is answered or fails, and the sleep of the loop ends
FairMaintenanceLoop == WF_vars(NextMaintenanceLoop)

SpecMaintenanceLoop == InitMaintenanceLoop /\ [][NextMaintenanceLoop]_vars /\ FairMaintenanceLoop

------------------------------------------------------------------------------
(* MemoryHierarchy.consolidate_memories and a shutdown of the service *)

\* the service is told to stop while consolidate_memories is in an iteration of
\* its loop over the root memories (lines 152-174), waiting at one of its
\* awaits.  Nothing in the loop looks for the signal: the call goes on, unless
\* the event loop cancels its task, and then CancelledError is raised at the
\* await the call is waiting at
ShutdownSignal(cancels) ==
    /\ cs.pc \in {"similar", "create", "link"}
    /\ ~cs.signalled
    /\ cs' = [cs EXCEPT !.pc = IF cancels THEN "cancelled" ELSE @,
                        !.signalled = TRUE,
                        !.left_at_signal = Len(cs.queue)]
    /\ UNCHANGED <<memories, hier, graph, now, ae, pr>>
    /\ UNCHANGED <<vecVars, engVars, qryVars>>

NextShutdown ==
    \/ NextGraph
    \/ \E cancels \in BOOLEAN : ShutdownSignal(cancels)

SpecShutdown == InitGraph /\ [][NextShutdown]_vars

\* C38: after the signal consolidate_memories begins no iteration for a
\* further root memory, and it does not stop between the insert of a
\* consolidated memory and the last of its edges
C38_StopsAtIterationBoundary ==
    /\ (cs.signalled /\ cs.pc \in {"similar", "create", "link"}) =>
          Len(cs.queue) = cs.left_at_signal
    /\ cs.pc = "cancelled" => cs.new = 0

\* the call was cancelled after it had inserted a consolidated memory and
\* before it had inserted the edges to its sources
CancelledHalfWay ==
    /\ cs.pc = "cancelled"
    /\ cs.new # 0
    /\ cs.similar # << >>

\* the call began the iteration of a further root memory after the signal
IterationAfterSignal ==
    /\ cs.signalled
    /\ cs.pc \in {"similar", "create", "link"}
    /\ Len(cs.queue) < cs.left_at_signal
------------------------------------------------------------------------------
(* consolidate_memories: the groups of one run *)

\* the source memories of the groups _create_consolidated_memory has been
\* called with in this run: those of the groups done, and the group of the
\* iteration in progress
MergedGroups ==
    {[new |-> g.new, sources |-> g.sources] : g \in cs.done}
        \cup (IF cs.pc \in {"create", "link"}
               THEN {[new |-> cs.new,
                      sources |-> {Head(cs.queue)}
                                     \cup {cs.similar[i] : i \in 1..Len(cs.similar)}
                                     \cup cs.sources]}
               ELSE {})

\* the parents of m through edges of type 'consolidated'
ConsolidatedParents(m) ==
    {e.parent : e \in {x \in hier : x.child = m /\ x.type = "consolidated"}}

\* C39: within a run of consolidate_memories no memory is in two of the groups
\* merged, the memory a group is built around has no parent edge, and no
\* memory has two parents of type 'consolidated'
C39_MergedAtMostOnce ==
    /\ \A g1, g2 \in MergedGroups : g1 # g2 => g1.sources \cap g2.sources = {}
    /\ cs.pc \in {"create", "link"} =>
          (Head(cs.queue) \in RootMemories(memories, hier)
             \/ cs.new \in ConsolidatedParents(Head(cs.queue)))
    /\ \A m \in DOMAIN memories : Cardinality(ConsolidatedParents(m)) <= 1

\* the second iteration of a run merges the memory the first iteration made a
\* child of its consolidated memory
MergedAgain ==
    /\ cs.pc = "create"
    /\ ConsolidatedParents(Head(cs.queue)) # {}
    /\ \E g \in cs.done : Head(cs.queue) \in g.sources
------------------------------------------------------------------------------
(* the memory_embeddings rows process_new_memory writes, and the index *)

\* C40: whenever no call is in flight, every memory id with a row in
\* memory_embeddings has a slot in the index, so that similarity_search can
\* return it
C40_DurableRowsIndexed ==
    (EngineQuiescent /\ VectorQuiescent) =>
        \A id \in RowIds(embeddings) : SlotsOf(id) # {}

\* process_new_memory has returned success, its embedding row is in the table
\* and the index has no slot for it
ProcessedRowNotIndexed ==
    /\ pn.pc = "returned"
    /\ pn.success
    /\ pn.id \in RowIds(embeddings)
    /\ SlotsOf(pn.id) = {}
====
